---- MODULE Spec2Model ----
(***************************************************************************)
(* A model of the ACC agent: the turn pipeline of server.py and            *)
(* acc_agent/core.py (prepare_turn, stream_action, finalize_turn), the     *)
(* two tool-call loops of AgentEngine, the sliding history window and the  *)
(* configuration self-revision of IntrospectionAgent.                      *)
(*                                                                         *)
(* The module holds these specifications over one set of variables:        *)
(*   SpecWindow  the history deque of ACCController under repeated turns   *)
(*   SpecEngine  generate_response and generate_response_stream run        *)
(*               against one oracle behaviour                              *)
(*   SpecCtx     check_and_update_context on text documents                *)
(*   SpecStore   ArtifactStore (add, recall) and the search capability     *)
(*   SpecPrepare prepare_turn, step by step: Recall, Qualify, Compress     *)
(*   Spec        the server: sessions, chat requests, Prepare, Act and     *)
(*               the background Finalize tasks                             *)
(*   SpecSessions the server with GET /state/{session_id} polled as well    *)
(*   SpecJournal MemoryManager's daily logs over several days              *)
(*   SpecFactory llm_factory under the environment variables               *)
(*   SpecAct     stream_generator of one turn, fed by                      *)
(*               generate_response_stream, up to the hand-over to Finalize *)
(* Each specification leaves the variables of the others at their initial  *)
(* values.                                                                 *)
(***************************************************************************)
EXTENDS Integers, Sequences, FiniteSets, TLC

VARIABLES
    \* ---- SpecWindow
    window,          \* ACCController.history, a deque(maxlen=15)
    appended,        \* every message ever appended to it, oldest first
    \* ---- SpecEngine
    script,          \* the oracle's responses so far, by invocation index
    eng_store,       \* the artifact store the capability searches
    gr,              \* generate_response: its locals and position
    gs,              \* generate_response_stream: its locals and position
    \* ---- SpecCtx
    ctx_files,       \* USER.md and AGENTS.md as IntrospectionAgent sees them
    ctx_last,        \* the last call of check_and_update_context
    \* ---- SpecStore
    art,             \* an ArtifactStore: its documents and the last call on it
    \* ---- SpecPrepare
    pt,              \* prepare_turn: its locals and position
    \* ---- Spec (the server)
    sessions,        \* server.sessions: the ids that have a controller
    current_ccs,     \* per session: ACCController.current_ccs
    history,         \* per session: ACCController.history
    user_context,    \* per session: the in-memory copy of USER.md
    agents_context,  \* per session: the in-memory copy of AGENTS.md
    recent_memory,   \* per session: ACCController.current_recent_memory
    files,           \* the configuration documents on disk, by path
    ledger,          \* MEMORY.md: the bullet lines appended so far
    journal,         \* today's daily log: the blocks appended so far
    store,           \* the artifact store: the documents added so far
    req,             \* per request: session, input, position and locals
    fetched,         \* the response of the last GET /state/{session_id}
    \* ---- SpecJournal
    jr,              \* the daily log files by date, today, the last read
    \* ---- SpecFactory
    llm,             \* the environment and the last call of llm_factory
    \* ---- SpecAct
    sg               \* stream_generator of one turn: its locals and position

window_vars == <<window, appended>>
engine_vars == <<script, eng_store, gr, gs>>
ctx_vars    == <<ctx_files, ctx_last>>
store_vars  == <<art>>
prepare_vars == <<pt>>
server_vars == <<sessions, current_ccs, history, user_context, agents_context,
                 recent_memory, files, ledger, journal, store, req>>
journal_vars == <<jr>>
factory_vars == <<llm>>
fetch_vars  == <<fetched>>
stream_vars == <<sg>>
vars == <<window_vars, engine_vars, ctx_vars, store_vars, prepare_vars, server_vars,
          journal_vars, factory_vars, fetch_vars, stream_vars>>

\* Python's None where a text is expected: a sequence that is no text, since
\* every element of a text is one character.
None == <<"None">>

(***************************************************************************)
(* Text.  A Python str is a sequence of one-character strings, so that     *)
(* len() and strip() are computed and not assumed.                         *)
(***************************************************************************)
Whitespace == {" ", "\n", "\t"}

RECURSIVE LStrip(_)
LStrip(s) ==
    IF s = <<>> THEN <<>>
    ELSE IF Head(s) \in Whitespace THEN LStrip(Tail(s)) ELSE s

RECURSIVE RStrip(_)
RStrip(s) ==
    IF s = <<>> THEN <<>>
    ELSE IF s[Len(s)] \in Whitespace THEN RStrip(SubSeq(s, 1, Len(s) - 1)) ELSE s

\* str.strip()
Strip(s) == RStrip(LStrip(s))

\* c * n
RECURSIVE Rep(_, _)
Rep(c, n) == IF n = 0 THEN <<>> ELSE <<c>> \o Rep(c, n - 1)

(***************************************************************************)
(* The sliding history window: collections.deque(maxlen=15).               *)
(***************************************************************************)
HistoryMaxLen == 15

\* deque.append that forgets to evict: the window grows without bound.
DequeAppendNoEvict(d, m) == Append(d, m)

\* deque.append on a bounded deque: a full deque drops its leftmost element.
DequeAppend(d, m) ==
    IF Len(d) >= HistoryMaxLen THEN Append(Tail(d), m) ELSE Append(d, m)

HumanMessage(text) == [role |-> "user", content |-> text]
AIMessage(text) == [role |-> "agent", content |-> text]

\* finalize_turn, "Update Sliding Window History": the two appends of a turn.
HistoryAfterTurn(h, user_input, response_text) ==
    DequeAppend(DequeAppend(h, HumanMessage(user_input)), AIMessage(response_text))

(***************************************************************************)
(* SpecWindow: the window under the appends of successive turns.           *)
(***************************************************************************)
MaxWindowTurns == 8
WinInputs == {"u1", "u2"}
WinReplies == {"r1", "r2"}

WindowInit ==
    /\ window = <<>>
    /\ appended = <<>>

\* finalize_turn line 502: self.history.append(HumanMessage(content=user_input))
AppendUser(u) ==
    /\ Len(appended) < 2 * MaxWindowTurns
    /\ Len(appended) % 2 = 0
    /\ window' = DequeAppend(window, HumanMessage(u))
    /\ appended' = Append(appended, HumanMessage(u))
    /\ UNCHANGED <<engine_vars, ctx_vars, server_vars, store_vars, prepare_vars, journal_vars, factory_vars, fetch_vars, stream_vars>>

\* finalize_turn line 503: self.history.append(AIMessage(content=response_text))
AppendAgent(r) ==
    /\ Len(appended) % 2 = 1
    /\ window' = DequeAppend(window, AIMessage(r))
    /\ appended' = Append(appended, AIMessage(r))
    /\ UNCHANGED <<engine_vars, ctx_vars, server_vars, store_vars, prepare_vars, journal_vars, factory_vars, fetch_vars, stream_vars>>

WindowNext ==
    \/ \E u \in WinInputs : AppendUser(u)
    \/ \E r \in WinReplies : AppendAgent(r)

(***************************************************************************)
(* The oracle and the search capability of AgentEngine.                    *)
(***************************************************************************)
MaxToolIterations == 3
SearchResults == 3

RECURSIVE Flatten(_)
Flatten(ss) == IF ss = <<>> THEN <<>> ELSE Head(ss) \o Flatten(Tail(ss))

\* "\n---\n".join(results)
RECURSIVE Join(_)
Join(results) ==
    IF results = <<>> THEN <<>>
    ELSE IF Len(results) = 1 THEN Head(results)
    ELSE Head(results) \o <<"\n---\n">> \o Join(Tail(results))

Min(a, b) == IF a < b THEN a ELSE b

\* a recall that forgets n_results: every document of the store
RecallUnbounded(st, query, n_results) == st

\* ArtifactStore.recall: the n_results nearest documents.  The similarity
\* order of the index is the order of insertion here.
Recall(st, query, n_results) == SubSeq(st, 1, Min(n_results, Len(st)))

NoInformation == <<"No relevant information found.">>

\* a search_memory that joins whatever recall returned, even nothing
SearchMemoryNoSentinel(st, query) == Join(Recall(st, query, SearchResults))

\* AgentEngine.__init__.search_memory
SearchMemory(st, query) ==
    LET results == Recall(st, query, SearchResults)
    IN  IF results # <<>> THEN Join(results) ELSE NoInformation

\* the lookup {"search_memory": self.tools[0]}[tool_call["name"].lower()]
Lower(name) == IF name = "Search_Memory" THEN "search_memory" ELSE name
KnownTool(call) == Lower(call.name) = "search_memory"

ToolCall(name, query) == [name |-> name, query |-> query]
ToolMessage(content) == [type |-> "tool", content |-> content, tool_calls |-> <<>>]
AIMessageOf(resp) ==
    [type |-> "ai", content |-> Flatten(resp.chunks), tool_calls |-> resp.tool_calls]

\* the ToolMessages of one round, in the order of the requests
RECURSIVE ToolOutputs(_, _)
ToolOutputs(st, calls) ==
    IF calls = <<>> THEN <<>>
    ELSE <<ToolMessage(SearchMemory(st, Head(calls).query))>> \o ToolOutputs(st, Tail(calls))

\* What the oracle may answer to one invocation: chunks of content, capability
\* requests, or an exception after the chunks it has produced.
Response(kind, chunks, calls) == [kind |-> kind, chunks |-> chunks, tool_calls |-> calls]
Responses ==
    { Response("msg", << <<"a">> >>, <<>>),
      Response("msg", << <<"a">>, <<>>, <<"b">> >>, <<>>),
      Response("msg", << <<>> >>, <<ToolCall("search_memory", "secret code")>>),
      Response("msg", << <<"t">> >>,
               <<ToolCall("Search_Memory", "q1"), ToolCall("search_memory", "q2")>>),
      Response("msg", << <<>> >>, <<ToolCall("lookup", "q1")>>),
      Response("raise", << <<"a">> >>, <<>>) }

\* the requests of a round that run before an unknown capability name raises
RECURSIVE KnownPrefix(_)
KnownPrefix(calls) ==
    IF calls = <<>> \/ ~KnownTool(Head(calls)) THEN <<>>
    ELSE <<Head(calls)>> \o KnownPrefix(Tail(calls))

Queries(calls) == [i \in 1..Len(calls) |-> calls[i].query]

(***************************************************************************)
(* SpecStore: one ArtifactStore under add_artifact, recall and the         *)
(* search_memory capability.  The backend of a query (the embedding call   *)
(* and the index) answers or raises.                                       *)
(***************************************************************************)
MaxStoreDocs == 4
StoreContents == { <<"The secret code is ALPHA">>, <<"x">>, <<"y">> }
StoreQueries == {"secret code", "q"}
RecallKs == 1..5
Backends == {"ok", "error"}

\* how a call ends: with a value, or with the exception it raised
Returned(value) == [raised |-> FALSE, value |-> value]
Raise(what) == [raised |-> TRUE, value |-> what]

\* ArtifactStore.recall as a call: collection.query is not guarded, so an
\* error of the backend leaves recall as an exception
RecallCall(st, query, n_results, backend) ==
    IF backend = "error" THEN Raise("backend")
    ELSE Returned(Recall(st, query, n_results))

\* the search_memory tool as a call: it calls recall unguarded, too
SearchMemoryTool(st, query, backend) ==
    IF backend = "error" THEN Raise("backend")
    ELSE Returned(SearchMemory(st, query))

StoreIdle == art = [op |-> "idle"]

StoreInit == art = [docs |-> <<>>, last |-> [op |-> "none"]]

\* ArtifactStore.add_artifact: collection.add(documents=[content], ...)
ArtAdd(content) ==
    /\ Len(art.docs) < MaxStoreDocs
    /\ art' = [docs |-> Append(art.docs, content), last |-> [op |-> "add"]]
    /\ UNCHANGED <<window_vars, engine_vars, ctx_vars, prepare_vars, server_vars, journal_vars, factory_vars, fetch_vars, stream_vars>>

\* ArtifactStore.recall(query, n_results)
ArtRecall(query, n_results, backend) ==
    /\ art' = [art EXCEPT !.last =
                 [op |-> "recall", query |-> query, n_results |-> n_results,
                  backend |-> backend,
                  result |-> RecallCall(art.docs, query, n_results, backend)]]
    /\ UNCHANGED <<window_vars, engine_vars, ctx_vars, prepare_vars, server_vars, journal_vars, factory_vars, fetch_vars, stream_vars>>

\* search_tool.invoke({"query": query})
ArtSearch(query, backend) ==
    /\ art' = [art EXCEPT !.last =
                 [op |-> "search", query |-> query, backend |-> backend,
                  result |-> SearchMemoryTool(art.docs, query, backend)]]
    /\ UNCHANGED <<window_vars, engine_vars, ctx_vars, prepare_vars, server_vars, journal_vars, factory_vars, fetch_vars, stream_vars>>

StoreNext ==
    \/ \E content \in StoreContents : ArtAdd(content)
    \/ \E query \in StoreQueries, k \in RecallKs, backend \in Backends :
           ArtRecall(query, k, backend)
    \/ \E query \in StoreQueries, backend \in Backends : ArtSearch(query, backend)

(***************************************************************************)
(* SpecEngine: generate_response and generate_response_stream, each run    *)
(* once, against the same oracle: invocation i of either gets script[i].   *)
(* Both build the same message list up to invocation i, so an oracle that  *)
(* is a function of the message list answers both alike.                   *)
(***************************************************************************)
MaxOracleCalls == 5
EngStores == { <<>>, << <<"The secret code is ALPHA">> >> }
Prompt == [type |-> "prompt", content |-> <<>>, tool_calls |-> <<>>]

EngineIdle ==
    /\ script = <<>>
    /\ eng_store = <<>>
    /\ gr = [pc |-> "idle"]
    /\ gs = [pc |-> "idle"]

EngineInit ==
    /\ script = <<>>
    /\ eng_store \in EngStores
    /\ gr = [pc |-> "invoke", ai_msg |-> None, tool_iterations |-> 0,
             messages |-> <<Prompt>>, calls |-> 0, rounds |-> 0,
             executed |-> <<>>, result |-> None]
    /\ gs = [pc |-> "invoke", chunk |-> None, pos |-> 0, tool_iterations |-> 0,
             messages |-> <<Prompt>>, calls |-> 0, rounds |-> 0,
             executed |-> <<>>, out |-> <<>>]

\* self.llm.invoke(messages) / self.llm.astream(messages): invocation i
Oracle(i, resp) ==
    /\ i <= MaxOracleCalls
    /\ resp \in Responses
    /\ i <= Len(script) => resp = script[i]
    /\ script' = IF i > Len(script) THEN Append(script, resp) ELSE script

\* a loop that never stops asking: no cap on the iterations
GRLoopCondNoCap(ai_msg, tool_iterations) == ai_msg.tool_calls # <<>>

\* while ai_msg.tool_calls and tool_iterations < 3
GRLoopCond(ai_msg, tool_iterations) ==
    ai_msg.tool_calls # <<>> /\ tool_iterations < MaxToolIterations

\* lines 228 and 248: ai_msg = self.llm.invoke(messages)
GRInvoke ==
    /\ gr.pc = "invoke"
    /\ \E resp \in Responses :
        /\ Oracle(gr.calls + 1, resp)
        /\ gr' = IF resp.kind = "raise"
                 THEN [gr EXCEPT !.pc = "raised", !.calls = @ + 1]
                 ELSE [gr EXCEPT !.pc = "check", !.calls = @ + 1,
                                 !.ai_msg = AIMessageOf(resp)]
    /\ UNCHANGED <<eng_store, gs, window_vars, ctx_vars, server_vars, store_vars, prepare_vars, journal_vars, factory_vars, fetch_vars, stream_vars>>

\* lines 235-247: one round of the loop body up to the next invocation
GRTools ==
    /\ gr.pc = "check"
    /\ GRLoopCond(gr.ai_msg, gr.tool_iterations)
    /\ LET calls == gr.ai_msg.tool_calls
           run == KnownPrefix(calls)
       IN  gr' = [gr EXCEPT
                   !.messages = Append(@, gr.ai_msg) \o ToolOutputs(eng_store, run),
                   !.executed = @ \o Queries(run),
                   !.rounds = @ + 1,
                   !.tool_iterations = IF run = calls THEN @ + 1 ELSE @,
                   !.pc = IF run = calls THEN "invoke" ELSE "raised"]
    /\ UNCHANGED <<script, eng_store, gs, window_vars, ctx_vars, server_vars, store_vars, prepare_vars, journal_vars, factory_vars, fetch_vars, stream_vars>>

GRResultOnlyWhenFinal(ai_msg) ==
    IF ai_msg.tool_calls # <<>> THEN <<>> ELSE ai_msg.content

\* line 251: the value returned, whether or not requests are still pending
GRResult(ai_msg) == ai_msg.content

\* line 251: return ai_msg.content
GRReturn ==
    /\ gr.pc = "check"
    /\ ~GRLoopCond(gr.ai_msg, gr.tool_iterations)
    /\ gr' = [gr EXCEPT !.pc = "done", !.result = GRResult(gr.ai_msg)]
    /\ UNCHANGED <<script, eng_store, gs, window_vars, ctx_vars, server_vars, store_vars, prepare_vars, journal_vars, factory_vars, fetch_vars, stream_vars>>

GRNext == GRInvoke \/ GRTools \/ GRReturn

SearchingMarker == <<"\n(Searching memory...)\n">>

\* line 308: while tool_iterations < 3
GSLoopCond(tool_iterations) == tool_iterations < MaxToolIterations

\* line 327: async for chunk in self.llm.astream(messages), the call
GSInvoke ==
    /\ gs.pc = "invoke"
    /\ \E resp \in Responses :
        /\ Oracle(gs.calls + 1, resp)
        /\ gs' = [gs EXCEPT !.pc = "chunks", !.calls = @ + 1, !.chunk = resp,
                            !.pos = 0]
    /\ UNCHANGED <<eng_store, gr, window_vars, ctx_vars, server_vars, store_vars, prepare_vars, journal_vars, factory_vars, fetch_vars, stream_vars>>

YieldChunkAlways(out, content) == Append(out, content)

\* lines 333-346: if chunk.content: yield chunk.content
YieldChunk(out, content) == IF content # <<>> THEN Append(out, content) ELSE out

\* lines 328-346: one chunk is aggregated and, if it has content, yielded
GSChunk ==
    /\ gs.pc = "chunks"
    /\ gs.pos < Len(gs.chunk.chunks)
    /\ LET content == gs.chunk.chunks[gs.pos + 1]
       IN  gs' = [gs EXCEPT !.pos = @ + 1, !.out = YieldChunk(@, content)]
    /\ UNCHANGED <<script, eng_store, gr, window_vars, ctx_vars, server_vars, store_vars, prepare_vars, journal_vars, factory_vars, fetch_vars, stream_vars>>

\* the stream of one invocation ends: it raises, or lines 349-354 and 367-369
GSStreamEnd ==
    /\ gs.pc = "chunks"
    /\ gs.pos = Len(gs.chunk.chunks)
    /\ gs' = IF gs.chunk.kind = "raise" THEN [gs EXCEPT !.pc = "raised"]
             ELSE IF gs.chunk.chunks # <<>> /\ gs.chunk.tool_calls # <<>>
             THEN [gs EXCEPT !.messages = Append(@, AIMessageOf(gs.chunk)),
                             !.out = Append(@, SearchingMarker),
                             !.pc = "tools"]
             ELSE [gs EXCEPT !.pc = "done"]
    /\ UNCHANGED <<script, eng_store, gr, window_vars, ctx_vars, server_vars, store_vars, prepare_vars, journal_vars, factory_vars, fetch_vars, stream_vars>>

\* lines 356-366: the capability requests run, then the loop condition
GSTools ==
    /\ gs.pc = "tools"
    /\ LET calls == gs.chunk.tool_calls
           run == KnownPrefix(calls)
           iter == gs.tool_iterations + 1
       IN  gs' = [gs EXCEPT
                   !.messages = @ \o ToolOutputs(eng_store, run),
                   !.executed = @ \o Queries(run),
                   !.rounds = @ + 1,
                   !.tool_iterations = IF run = calls THEN iter ELSE @,
                   !.pc = IF run # calls THEN "raised"
                          ELSE IF GSLoopCond(iter) THEN "invoke" ELSE "done"]
    /\ UNCHANGED <<script, eng_store, gr, window_vars, ctx_vars, server_vars, store_vars, prepare_vars, journal_vars, factory_vars, fetch_vars, stream_vars>>

GSNext == GSInvoke \/ GSChunk \/ GSStreamEnd \/ GSTools

EngineNext == GRNext \/ GSNext

(***************************************************************************)
(* Configuration self-revision: IntrospectionAgent.check_and_update_context*)
(* A document on disk is a text or Absent; the oracle proposes, per         *)
(* document, a text, the empty text or None, or its call raises.           *)
(***************************************************************************)
\* a path at which no file exists
Absent == <<"Absent">>
MinRewriteLen == 10

\* IntrospectionAgent._read_file / ACCController._load_context_file
ReadText(content) == IF content = Absent THEN <<>> ELSE content

\* the gate without the trim: any textual difference counts
ShouldRewriteNoStrip(new, cur) ==
    /\ new # None /\ new # <<>>
    /\ new # cur
    /\ Len(new) > MinRewriteLen

\* lines 116-119 and 123-124: truthy, differs after strip(), len(new) > 10
ShouldRewrite(new, cur) ==
    /\ new # None /\ new # <<>>
    /\ Strip(new) # Strip(cur)
    /\ Len(new) > MinRewriteLen

ContextOracle(failed, new_user_md, new_agents_md, io_error) ==
    [failed |-> failed, new_user_md |-> new_user_md,
     new_agents_md |-> new_agents_md, io_error |-> io_error]

\* check_and_update_context on the documents f = [user, agents] of the agent's
\* settings_dir: the documents afterwards and the list it returns.  io_error
\* names the document whose write_text raises, if any; the except clause
\* then returns [] and keeps what was written before.
CheckAndUpdateContext(f, o) ==
    LET wu == ShouldRewrite(o.new_user_md, ReadText(f.user))
        wa == ShouldRewrite(o.new_agents_md, ReadText(f.agents))
        f1 == IF wu THEN [f EXCEPT !.user = o.new_user_md] ELSE f
        f2 == IF wa THEN [f1 EXCEPT !.agents = o.new_agents_md] ELSE f1
    IN  IF o.failed THEN [files |-> f, updated |-> <<>>]
        ELSE IF wu /\ o.io_error = "USER.md" THEN [files |-> f, updated |-> <<>>]
        ELSE IF wa /\ o.io_error = "AGENTS.md" THEN [files |-> f1, updated |-> <<>>]
        ELSE [files |-> f2,
              updated |-> (IF wu THEN <<"USER.md">> ELSE <<>>)
                          \o (IF wa THEN <<"AGENTS.md">> ELSE <<>>)]

InSeq(x, sq) == \E i \in 1..Len(sq) : sq[i] = x

(***************************************************************************)
(* SpecCtx: check_and_update_context called again and again.               *)
(***************************************************************************)
DocA == Rep("a", 12)
DocAPadded == <<" ">> \o Rep("a", 12) \o <<"\n">>
DocB == Rep("b", 11)
DocB10 == Rep("b", 10)
DocBPadded == <<" ">> \o Rep("b", 9) \o <<"\t">>
DocBlank == Rep(" ", 11)
CtxTexts == {DocA, DocAPadded, DocB, DocB10, DocBPadded, DocBlank}
CtxProposals == CtxTexts \cup {None, <<>>}
IoErrors == {"none", "USER.md", "AGENTS.md"}

CtxDocs == CtxTexts \cup {Absent}

CtxIdle ==
    /\ ctx_files = [user |-> Absent, agents |-> Absent]
    /\ ctx_last = [called |-> FALSE]

CtxInit ==
    /\ ctx_files \in [user : CtxDocs, agents : CtxDocs]
    /\ ctx_last = [called |-> FALSE]

CtxCall(o) ==
    /\ ~ctx_last.called
    /\ LET r == CheckAndUpdateContext(ctx_files, o)
       IN  /\ ctx_files' = r.files
           /\ ctx_last' = [called |-> TRUE, before |-> ctx_files, oracle |-> o,
                           updated |-> r.updated]
    /\ UNCHANGED <<window_vars, engine_vars, server_vars, store_vars, prepare_vars, journal_vars, factory_vars, fetch_vars, stream_vars>>

CtxNext ==
    \E failed \in BOOLEAN, nu \in CtxProposals, na \in CtxProposals, io \in IoErrors :
        CtxCall(ContextOracle(failed, nu, na, io))

(***************************************************************************)
(* The server: server.py and ACCController.                                *)
(***************************************************************************)
MaxRequests == 2
MaxFragments == 1
Sessions == {"default", "s2"}
\* Session ids are interchangeable: the first controller created is the one
\* of FirstSession, the id a request without session_id gets.
FirstSession == "default"

\* ChatRequest.message; revision tells whether the text carries an explicit
\* instruction to revise the goal or the constraints
Inputs == { [text |-> "hello", revision |-> FALSE],
            [text |-> "drop that rule", revision |-> TRUE] }

\* CompressedCognitiveState, by the fields the controller and the agents read
CCS(gist, goal, constraints) ==
    [semantic_gist |-> gist, goal_orientation |-> goal, constraints |-> constraints]
NoCCS == [none |-> TRUE]

\* what with_structured_output(CompressedCognitiveState) may emit
OracleCCS == { CCS("g1", "goal1", <<"c1">>),
               CCS("g2", "goal2", <<>>) }

Elems(sq) == {sq[i] : i \in 1..Len(sq)}

\* the configuration documents on disk
UserDir == "agent-settings/user"
CommonDir == "agent-settings/common"
Path(dir, name) == <<dir, name>>
Paths == { Path(UserDir, "USER.md"), Path(UserDir, "AGENTS.md"),
           Path(CommonDir, "AGENTS.md") }
DocUser1 == Rep("u", 11)
DocUser2 == Rep("v", 11)
DocAgents1 == Rep("r", 11)
DocAgents2 == Rep("s", 11)

\* IntrospectionAgent._read_file / _write_file: always under settings_dir
IntrospectionPath(name) == Path(UserDir, name)

\* ACCController._load_context_file(filename, is_common)
ControllerPath(name, is_common) == Path(IF is_common THEN CommonDir ELSE UserDir, name)

\* MemoryManager._ensure_directories: MEMORY.md is created with its title
EnsureLedger(l) == IF l = Absent THEN <<"# Long-term Memory\n\n">> ELSE l

\* MemoryManager.append_to_long_term_memory: one bullet line per fact
RECURSIVE Bullets(_)
Bullets(facts) ==
    IF facts = <<>> THEN <<>>
    ELSE <<"- ", Head(facts), "\n">> \o Bullets(Tail(facts))
\* an append that opens MEMORY.md for writing: the old lines are lost
AppendToLongTermMemoryTruncating(l, facts) ==
    IF facts = <<>> THEN l ELSE Bullets(facts)

\* MemoryManager.read_long_term_memory
ReadLongTermMemory(l) == IF l = Absent THEN <<>> ELSE l

AppendToLongTermMemory(l, facts) == IF facts = <<>> THEN l ELSE l \o Bullets(facts)

\* MemoryManager.append_daily_log: header if the file is new, then the block
AppendDailyLog(j, content) ==
    (IF j = Absent THEN <<"# today\n\n">> ELSE j) \o <<"\n", content, "\n">>

\* MemoryManager.read_recent_daily_logs: the days that have a file, each under
\* its date header (yesterday has no file here)
ReadRecentDailyLogs(j) == IF j = Absent THEN <<>> ELSE <<"# today\n\n">> \o j

\* ArtifactStore.add_artifact
AddArtifact(st, content, type) == Append(st, [content |-> content, type |-> type])

RECURSIVE AddFacts(_, _)
AddFacts(st, facts) ==
    IF facts = <<>> THEN st
    ELSE AddFacts(AddArtifact(st, [fact |-> Head(facts)], "semantic_memory"), Tail(facts))

\* the episodic trace of finalize_turn, lines 496-499
EpisodicTrace(user_input, response_text, gist) ==
    [user |-> user_input, assistant |-> response_text, gist |-> gist]

PrepErrorText == <<"Error during preparation: ">>
ActErrorText == <<"[Error generating response: ]">>
ActChunks == { <<"a">> }

\* the response of GET /state is in `fetched` while it is being returned; any
\* later step of the server finds it gone
NoResponse == [op |-> "none"]
ResponseGone == fetched' = NoResponse

\* A request and the locals of its stream_generator and finalize_turn.  A
\* local that is read no more holds its initial value again: act_ccs after
\* Act, stream once the response is closed, and the locals of finalize_turn
\* after their last use.  journal_answer and facts_answer are what the two
\* oracle calls of the introspection cycle gave (Raised: the call raised, which
\* the except clause prints), kept one step past the logging of the journal
\* and of the facts.
NewRequest(s, input) ==
    [session |-> s, input |-> input, pc |-> "received", error |-> "none",
     stream |-> <<>>, full_response |-> <<>>, act_ccs |-> NoCCS,
     prep_gist |-> "", act_history |-> <<>>,
     journal_answer |-> <<>>, facts_answer |-> <<>>,
     journal_entry |-> <<>>, facts |-> <<>>, updated_files |-> <<>>]

ServerInit ==
    /\ sessions = {}
    /\ current_ccs = [s \in Sessions |-> NoCCS]
    /\ history = [s \in Sessions |-> <<>>]
    /\ user_context = [s \in Sessions |-> <<>>]
    /\ agents_context = [s \in Sessions |-> <<>>]
    /\ recent_memory = [s \in Sessions |-> <<>>]
    /\ files = [p \in Paths |->
                 IF p = Path(UserDir, "USER.md") THEN DocUser1
                 ELSE IF p = Path(CommonDir, "AGENTS.md") THEN DocAgents1
                 ELSE Absent]
    /\ ledger = Absent
    /\ journal = Absent
    /\ store = <<>>
    /\ req = <<>>

Requests == 1..Len(req)

\* chat_endpoint: the controller of the session is created on first use
\* (ACCController.__init__) and the streaming response is returned
\* a POST /chat body: the message, with or without a session_id
ChatBodies ==
    {[message |-> input, session_id |-> s] : input \in Inputs, s \in Sessions}
    \cup {[message |-> input] : input \in Inputs}

\* class ChatRequest: session_id: str = "default"
SessionIdOf(body) ==
    IF "session_id" \in DOMAIN body THEN body.session_id ELSE "default"

ChatEndpoint(s, input) ==
    /\ Len(req) < MaxRequests
    /\ s = FirstSession \/ FirstSession \in sessions
    /\ req' = Append(req, NewRequest(s, input))
    /\ sessions' = sessions \cup {s}
    /\ IF s \in sessions
       THEN UNCHANGED <<user_context, agents_context, ledger>>
       ELSE /\ user_context' = [user_context EXCEPT
                                 ![s] = ReadText(files[ControllerPath("USER.md", FALSE)])]
            /\ agents_context' = [agents_context EXCEPT
                                   ![s] = ReadText(files[ControllerPath("AGENTS.md", TRUE)])]
            /\ ledger' = EnsureLedger(ledger)
    /\ UNCHANGED <<current_ccs, history, recent_memory, files, journal, store>>
    /\ ResponseGone
    /\ UNCHANGED <<window_vars, engine_vars, ctx_vars, store_vars, prepare_vars, journal_vars, factory_vars, stream_vars>>

\* a prepare_turn that commits what the oracle emitted although it raised
CcsAfterPrepareAlways(outcome, prev_ccs, new_ccs) == new_ccs

\* a commit that carries the previous goal_orientation over
CcsAfterPrepareMerging(outcome, prev_ccs, new_ccs) ==
    IF outcome # "ok" THEN prev_ccs
    ELSE IF prev_ccs = NoCCS THEN new_ccs
    ELSE [new_ccs EXCEPT !.goal_orientation = prev_ccs.goal_orientation]

\* prepare_turn, line 435: the commit happens only if nothing raised before
CcsAfterPrepare(outcome, prev_ccs, new_ccs) ==
    IF outcome = "ok" THEN new_ccs ELSE prev_ccs

PrepareOutcomes == {"ok", "recall_raise", "compress_raise"}

\* a stream_action that puts the turn's input behind the window it passes on
HistoryForActWithInput(window_now, user_input) ==
    Append(window_now, HumanMessage(user_input))

\* stream_action line 452: history=list(self.history), a copy of the window
\* as it is; the input travels apart from it, as user_input
HistoryForAct(window_now, user_input) == window_now

\* stream_generator lines 40-44 with prepare_turn, and, when it returns, the
\* start of stream_action: the event loop runs all of it without suspending,
\* so Act reads the CCS that this very Prepare committed
Prepare(r, outcome, new_ccs) ==
    /\ req[r].pc = "received"
    /\ LET s == req[r].session
       IN  /\ current_ccs' = [current_ccs EXCEPT
                               ![s] = CcsAfterPrepare(outcome, @, new_ccs)]
           /\ IF outcome = "ok"
              THEN /\ recent_memory' = [recent_memory EXCEPT
                                         ![s] = ReadRecentDailyLogs(journal)]
                   /\ req' = [req EXCEPT ![r].pc = "acting",
                                         ![r].act_ccs = current_ccs'[s],
                                         ![r].act_history =
                                             HistoryForAct(history[s], req[r].input.text),
                                         ![r].prep_gist = current_ccs'[s].semantic_gist]
              ELSE /\ UNCHANGED recent_memory
                   /\ req' = [req EXCEPT ![r].pc = "prep_error",
                                         ![r].error = outcome,
                                         ![r].stream = <<PrepErrorText>>]
    /\ UNCHANGED <<sessions, history, user_context, agents_context, files,
                   ledger, journal, store>>
    /\ ResponseGone
    /\ UNCHANGED <<window_vars, engine_vars, ctx_vars, store_vars, prepare_vars, journal_vars, factory_vars, stream_vars>>

\* a stream_generator that keeps the progress markers out of the reply text
FullResponseSkippingMarker(full_response, chunk) ==
    IF chunk = SearchingMarker THEN full_response
    ELSE full_response \o chunk

\* stream_generator line 51: full_response += chunk, for every chunk alike
FullResponseAfter(full_response, chunk) == full_response \o chunk

\* a generator that hands the turn to Finalize as soon as a fragment is out
PcAfterChunkScheduled == "scheduled"

\* stream_generator lines 50-52: after a fragment the loop goes on
PcAfterChunk == "acting"

\* stream_generator lines 50-52: one fragment of the reply is passed on
ActChunk(r, chunk) ==
    /\ req[r].pc = "acting"
    /\ Len(req[r].stream) < MaxFragments
    /\ req' = [req EXCEPT ![r].stream = Append(@, chunk),
                          ![r].full_response = FullResponseAfter(@, chunk),
                          ![r].pc = PcAfterChunk]
    /\ UNCHANGED <<sessions, current_ccs, history, user_context, agents_context,
                   recent_memory, files, ledger, journal, store>>
    /\ ResponseGone
    /\ UNCHANGED <<window_vars, engine_vars, ctx_vars, store_vars, prepare_vars, journal_vars, factory_vars, stream_vars>>

\* an Act failure that still hands the partial reply to Finalize
PcAfterActRaiseScheduled == "scheduled"

\* stream_generator lines 53-55: the error marker, then return
PcAfterActRaise == "act_error"

\* an except clause that takes the commit of the turn's Prepare back
CcsAfterActRaiseReset(ccs) == NoCCS

\* stream_generator lines 53-55: the except clause yields the error text and
\* returns; it assigns nothing to the controller
CcsAfterActRaise(ccs) == ccs

ActRaise(r) ==
    /\ req[r].pc = "acting"
    /\ req' = [req EXCEPT ![r].stream = Append(@, ActErrorText),
                          ![r].error = "act_raise",
                          ![r].act_ccs = NoCCS, ![r].act_history = <<>>,
                          ![r].prep_gist = "",
                          ![r].pc = PcAfterActRaise]
    /\ current_ccs' = [current_ccs EXCEPT
                        ![req[r].session] = CcsAfterActRaise(@)]
    /\ UNCHANGED <<sessions, history, user_context, agents_context,
                   recent_memory, files, ledger, journal, store>>
    /\ ResponseGone
    /\ UNCHANGED <<window_vars, engine_vars, ctx_vars, store_vars, prepare_vars, journal_vars, factory_vars, stream_vars>>

\* stream_generator lines 50-52 when the caller's connection drops: the
\* response stops iterating the generator, which is cancelled at its await
\* or left at its yield; "except Exception" does not catch the cancellation
\* and line 59 is never reached
Disconnect(r) ==
    /\ req[r].pc = "acting"
    /\ req' = [req EXCEPT ![r].pc = "cancelled", ![r].act_ccs = NoCCS, ![r].act_history = <<>>,
                          ![r].prep_gist = "",
                          ![r].stream = <<>>, ![r].full_response = <<>>]
    /\ UNCHANGED <<sessions, current_ccs, history, user_context, agents_context,
                   recent_memory, files, ledger, journal, store>>
    /\ ResponseGone
    /\ UNCHANGED <<window_vars, engine_vars, ctx_vars, store_vars, prepare_vars, journal_vars, factory_vars, stream_vars>>

\* stream_generator line 59: the reply is complete, finalize_turn is handed to
\* the background tasks of the response
ActEnd(r) ==
    /\ req[r].pc = "acting"
    /\ req' = [req EXCEPT ![r].pc = "scheduled", ![r].act_ccs = NoCCS, ![r].act_history = <<>>]
    /\ UNCHANGED <<sessions, current_ccs, history, user_context, agents_context,
                   recent_memory, files, ledger, journal, store>>
    /\ ResponseGone
    /\ UNCHANGED <<window_vars, engine_vars, ctx_vars, store_vars, prepare_vars, journal_vars, factory_vars, stream_vars>>

\* what the journal oracle and the fact oracle may answer
Raised == <<"raise">>
JournalNone == <<"N", "O", "N", "E">>
JournalOracle == { Raised, JournalNone, <<" ">> \o JournalNone \o <<"\n">>, <<"J">> }
FactOracle == { Raised, <<>>, <<"f1", "f2">> }

\* the three oracle answers of one introspection cycle that Spec draws from:
\* nothing to record, a journal entry with a fact, and a rewrite of either
\* document while the other two calls fail or decline
Answers(journal_answer, fact_answer, new_user_md, new_agents_md) ==
    [journal |-> journal_answer, facts |-> fact_answer,
     user |-> new_user_md, agents |-> new_agents_md]
ServerAnswers ==
    { Answers(JournalNone, <<>>, None, None),
      Answers(<<"J">>, <<"f1", "f2">>, None, None),
      Answers(Raised, Raised, DocUser2, None),
      Answers(<<" ">> \o JournalNone \o <<"\n">>, <<>>, None, DocAgents2) }

\* a create_daily_journal_entry that compares the content untrimmed
CreateDailyJournalEntryNoStrip(answer) ==
    IF answer = Raised THEN <<>>
    ELSE IF answer = JournalNone THEN <<>> ELSE answer

\* IntrospectionAgent.create_daily_journal_entry, lines 225-237
CreateDailyJournalEntry(answer) ==
    IF answer = Raised THEN <<>>
    ELSE IF Strip(answer) = JournalNone THEN <<>> ELSE answer

\* an extract_memories whose except clause returns the error as a fact
ExtractMemoriesErrorAsFact(answer) ==
    IF answer = Raised THEN <<"Error in extract_memories">> ELSE answer

\* IntrospectionAgent.extract_memories, lines 176-185
ExtractMemories(answer) == IF answer = Raised THEN <<>> ELSE answer

\* finalize_turn line 463, run_introspection_cycle: the journal entry, the
\* facts, and check_and_update_context on the agent's own settings_dir
FinIntrospect(r, answer) ==
    /\ req[r].pc = "scheduled"
    /\ LET res == CheckAndUpdateContext(
                      [user |-> files[IntrospectionPath("USER.md")],
                       agents |-> files[IntrospectionPath("AGENTS.md")]],
                      ContextOracle(FALSE, answer.user, answer.agents, "none"))
       IN  /\ files' = [files EXCEPT
                         ![IntrospectionPath("USER.md")] = res.files.user,
                         ![IntrospectionPath("AGENTS.md")] = res.files.agents]
           /\ req' = [req EXCEPT
                       ![r].journal_answer = answer.journal,
                       ![r].facts_answer = answer.facts,
                       ![r].journal_entry = CreateDailyJournalEntry(answer.journal),
                       ![r].facts = ExtractMemories(answer.facts),
                       ![r].updated_files = res.updated,
                       ![r].stream = <<>>,
                       ![r].pc = "journal"]
    /\ UNCHANGED <<sessions, current_ccs, history, user_context, agents_context,
                   recent_memory, ledger, journal, store>>
    /\ ResponseGone
    /\ UNCHANGED <<window_vars, engine_vars, ctx_vars, store_vars, prepare_vars, journal_vars, factory_vars, stream_vars>>

\* finalize_turn lines 466-467
FinJournal(r) ==
    /\ req[r].pc = "journal"
    /\ journal' = IF req[r].journal_entry # <<>>
                  THEN AppendDailyLog(journal, req[r].journal_entry)
                  ELSE journal
    /\ req' = [req EXCEPT ![r].pc = "facts", ![r].journal_entry = <<>>]
    /\ UNCHANGED <<sessions, current_ccs, history, user_context, agents_context,
                   recent_memory, files, ledger, store>>
    /\ ResponseGone
    /\ UNCHANGED <<window_vars, engine_vars, ctx_vars, store_vars, prepare_vars, journal_vars, factory_vars, stream_vars>>

\* finalize_turn lines 470-474
FinFacts(r) ==
    /\ req[r].pc = "facts"
    /\ ledger' = AppendToLongTermMemory(ledger, req[r].facts)
    /\ store' = AddFacts(store, req[r].facts)
    /\ req' = [req EXCEPT ![r].pc = "reload", ![r].facts = <<>>,
                          ![r].journal_answer = <<>>]
    /\ UNCHANGED <<sessions, current_ccs, history, user_context, agents_context,
                   recent_memory, files, journal>>
    /\ ResponseGone
    /\ UNCHANGED <<window_vars, engine_vars, ctx_vars, store_vars, prepare_vars, journal_vars, factory_vars, stream_vars>>

\* finalize_turn lines 477-492: the in-memory copies of the documents named in
\* updated_files are loaded again; the one copy per session stands for the
\* controller's field and the fields of the agent and the compressor, which
\* are assigned together.  IDENTITY.md and SOUL.md are never reported.
FinReload(r) ==
    /\ req[r].pc = "reload"
    /\ LET s == req[r].session
       IN  /\ user_context' =
                IF InSeq("USER.md", req[r].updated_files)
                THEN [user_context EXCEPT
                       ![s] = ReadText(files[ControllerPath("USER.md", FALSE)])]
                ELSE user_context
           /\ agents_context' =
                IF InSeq("AGENTS.md", req[r].updated_files)
                THEN [agents_context EXCEPT
                       ![s] = ReadText(files[ControllerPath("AGENTS.md", TRUE)])]
                ELSE agents_context
    /\ req' = [req EXCEPT ![r].pc = "episodic", ![r].updated_files = <<>>,
                          ![r].facts_answer = <<>>]
    /\ UNCHANGED <<sessions, current_ccs, history, recent_memory, files, ledger,
                   journal, store>>
    /\ ResponseGone
    /\ UNCHANGED <<window_vars, engine_vars, ctx_vars, store_vars, prepare_vars, journal_vars, factory_vars, stream_vars>>

\* finalize_turn lines 496-499: the gist is read from current_ccs now
FinEpisodic(r) ==
    /\ req[r].pc = "episodic"
    /\ store' = AddArtifact(store,
                    EpisodicTrace(req[r].input.text, req[r].full_response,
                                  current_ccs[req[r].session].semantic_gist),
                    "episodic_memory")
    /\ req' = [req EXCEPT ![r].pc = "history_user", ![r].prep_gist = ""]
    /\ UNCHANGED <<sessions, current_ccs, history, user_context, agents_context,
                   recent_memory, files, ledger, journal>>
    /\ ResponseGone
    /\ UNCHANGED <<window_vars, engine_vars, ctx_vars, store_vars, prepare_vars, journal_vars, factory_vars, stream_vars>>

\* finalize_turn line 502
FinHistoryUser(r) ==
    /\ req[r].pc = "history_user"
    /\ history' = [history EXCEPT
                    ![req[r].session] = DequeAppend(@, HumanMessage(req[r].input.text))]
    /\ req' = [req EXCEPT ![r].pc = "history_agent"]
    /\ UNCHANGED <<sessions, current_ccs, user_context, agents_context,
                   recent_memory, files, ledger, journal, store>>
    /\ ResponseGone
    /\ UNCHANGED <<window_vars, engine_vars, ctx_vars, store_vars, prepare_vars, journal_vars, factory_vars, stream_vars>>

\* finalize_turn line 503
FinHistoryAgent(r) ==
    /\ req[r].pc = "history_agent"
    /\ history' = [history EXCEPT
                    ![req[r].session] = DequeAppend(@, AIMessage(req[r].full_response))]
    /\ req' = [req EXCEPT ![r].pc = "done", ![r].full_response = <<>>]
    /\ UNCHANGED <<sessions, current_ccs, user_context, agents_context,
                   recent_memory, files, ledger, journal, store>>
    /\ ResponseGone
    /\ UNCHANGED <<window_vars, engine_vars, ctx_vars, store_vars, prepare_vars, journal_vars, factory_vars, stream_vars>>

\* a finalize_turn that notes the failed write and goes on to the history
FinAbortedButRecorded(request, what) ==
    [request EXCEPT !.pc = "history_user", !.error = what]

\* the state of a finalize_turn that a failed write has ended: the exception
\* leaves the background task, its locals are gone
FinAborted(request, what) ==
    [request EXCEPT !.pc = "fin_error", !.error = what, !.prep_gist = "",
                    !.full_response = <<>>, !.journal_answer = <<>>,
                    !.facts_answer = <<>>, !.journal_entry = <<>>,
                    !.facts = <<>>, !.updated_files = <<>>]

\* finalize_turn line 467: append_daily_log raises
FinJournalFail(r) ==
    /\ req[r].pc = "journal"
    /\ req[r].journal_entry # <<>>
    /\ req' = [req EXCEPT ![r] = FinAborted(@, "journal_write")]
    /\ UNCHANGED <<sessions, current_ccs, history, user_context, agents_context,
                   recent_memory, files, ledger, journal, store>>
    /\ ResponseGone
    /\ UNCHANGED <<window_vars, engine_vars, ctx_vars, store_vars, prepare_vars, journal_vars, factory_vars, stream_vars>>

\* a finalize_turn that takes the bullets back when an insertion fails
LedgerAfterFactFailureRolledBack(l, facts) == l

\* finalize_turn line 472: the append to MEMORY.md came before the insertions
LedgerAfterFactFailure(l, facts) == AppendToLongTermMemory(l, facts)

\* finalize_turn lines 472-474: the ledger has its bullets, the first
\* `inserted` facts are in the artifact store, and the next add_artifact raises
FinFactsFail(r, inserted) ==
    /\ req[r].pc = "facts"
    /\ inserted < Len(req[r].facts)
    /\ ledger' = LedgerAfterFactFailure(ledger, req[r].facts)
    /\ store' = AddFacts(store, SubSeq(req[r].facts, 1, inserted))
    /\ req' = [req EXCEPT ![r] = FinAborted(@, "fact_write")]
    /\ UNCHANGED <<sessions, current_ccs, history, user_context, agents_context,
                   recent_memory, files, journal>>
    /\ ResponseGone
    /\ UNCHANGED <<window_vars, engine_vars, ctx_vars, store_vars, prepare_vars, journal_vars, factory_vars, stream_vars>>

\* finalize_turn lines 496-499: the add_artifact of the episodic trace raises
FinEpisodicFail(r) ==
    /\ req[r].pc = "episodic"
    /\ req' = [req EXCEPT ![r] = FinAborted(@, "episodic_write")]
    /\ UNCHANGED <<sessions, current_ccs, history, user_context, agents_context,
                   recent_memory, files, ledger, journal, store>>
    /\ ResponseGone
    /\ UNCHANGED <<window_vars, engine_vars, ctx_vars, store_vars, prepare_vars, journal_vars, factory_vars, stream_vars>>

\* the steps of a chat request on the event loop
RequestNext ==
    \/ \E body \in ChatBodies : ChatEndpoint(SessionIdOf(body), body.message)
    \/ \E r \in Requests, outcome \in PrepareOutcomes, new_ccs \in OracleCCS :
           Prepare(r, outcome, new_ccs)
    \/ \E r \in Requests, chunk \in ActChunks : ActChunk(r, chunk)
    \/ \E r \in Requests : ActRaise(r)
    \/ \E r \in Requests : ActEnd(r)
    \/ \E r \in Requests : Disconnect(r)

\* the steps of the finalize_turn tasks in the thread pool
FinalizeNext ==
    \/ \E r \in Requests, answer \in ServerAnswers : FinIntrospect(r, answer)
    \/ \E r \in Requests : FinJournal(r)
    \/ \E r \in Requests : FinFacts(r)
    \/ \E r \in Requests : FinReload(r)
    \/ \E r \in Requests : FinEpisodic(r)
    \/ \E r \in Requests : FinHistoryUser(r)
    \/ \E r \in Requests : FinHistoryAgent(r)
    \/ \E r \in Requests : FinJournalFail(r)
    \/ \E r \in Requests, inserted \in 0..1 : FinFactsFail(r, inserted)
    \/ \E r \in Requests : FinEpisodicFail(r)

ServerNext == RequestNext \/ FinalizeNext

(***************************************************************************)
(* SpecPrepare: one run of prepare_turn, statement by statement, on a      *)
(* controller with some artifact store and some previous CCS.              *)
(***************************************************************************)
RecallDefault == 3
PrepStores == { <<>>,
                << <<"m1">> >>,
                << <<"m1">>, <<"m2">> >>,
                << <<"m1">>, <<"m2">>, <<"m3">>, <<"m4">> >> }
PrepCCS == {NoCCS} \cup OracleCCS
PrepInputs == {"hello", "what is the code"}

\* what with_structured_output(QualifiedList) may do: raise, or select all,
\* the first or none of the artifacts it was shown, or give a list[str] of
\* its own wording (the first artifact, shortened)
QualifyAnswers == {"raise", "all", "first", "none", "reworded"}
Reworded(artifact) == artifact \o <<"...">>
Selected(artifacts, answer) ==
    CASE answer = "all" -> artifacts
      [] answer = "first" -> SubSeq(artifacts, 1, 1)
      [] answer = "reworded" -> <<Reworded(artifacts[1])>>
      [] OTHER -> <<>>

\* a qualify_artifacts without its except clause
QualifyArtifactsPropagate(artifacts, answer) ==
    IF artifacts = <<>> THEN Returned(<<>>)
    ELSE IF answer = "raise" THEN Raise("oracle")
    ELSE Returned(Selected(artifacts, answer))

\* CognitiveCompressorModel.qualify_artifacts: no artifacts, no oracle call;
\* an oracle call that raises gives []
QualifyArtifacts(artifacts, answer) ==
    IF artifacts = <<>> THEN Returned(<<>>)
    ELSE IF answer = "raise" THEN Returned(<<>>)
    ELSE Returned(Selected(artifacts, answer))

\* whether the Qualify oracle was called, and how the call ended
QualifyStatus(artifacts, answer) ==
    IF artifacts = <<>> THEN "skipped"
    ELSE IF answer = "raise" THEN "raised" ELSE "answered"

\* compress_and_commit line 128: the artifacts as the oracle is shown them
ArtifactsStr(qualified_artifacts) ==
    IF qualified_artifacts # <<>> THEN Join(qualified_artifacts) ELSE <<"None">>

PrepareIdle == pt = [pc |-> "idle"]

PrepareInit ==
    \E docs \in PrepStores, ccs \in PrepCCS, user_input \in PrepInputs :
        pt = [pc |-> "recall", docs |-> docs, user_input |-> user_input,
              current_ccs |-> ccs, raw_artifacts |-> <<>>,
              qualified_artifacts |-> <<>>, qualify |-> "not_called",
              artifacts_str |-> <<>>, error |-> "none"]

\* prepare_turn lines 416-418: raw_artifacts = self.store.recall(recall_query)
PTRecall(backend) ==
    /\ pt.pc = "recall"
    /\ LET res == RecallCall(pt.docs, pt.user_input, RecallDefault, backend)
       IN  pt' = IF res.raised
                 THEN [pt EXCEPT !.pc = "raised", !.error = "recall"]
                 ELSE [pt EXCEPT !.pc = "qualify", !.raw_artifacts = res.value]
    /\ UNCHANGED <<window_vars, engine_vars, ctx_vars, store_vars, server_vars, journal_vars, factory_vars, fetch_vars, stream_vars>>

\* prepare_turn line 421: qualified_artifacts = self.ccm.qualify_artifacts(...)
PTQualify(answer) ==
    /\ pt.pc = "qualify"
    /\ LET res == QualifyArtifacts(pt.raw_artifacts, answer)
       IN  pt' = IF res.raised
                 THEN [pt EXCEPT !.pc = "raised", !.error = "qualify",
                                 !.qualify = QualifyStatus(pt.raw_artifacts, answer)]
                 ELSE [pt EXCEPT !.pc = "compress",
                                 !.qualified_artifacts = res.value,
                                 !.qualify = QualifyStatus(pt.raw_artifacts, answer)]
    /\ UNCHANGED <<window_vars, engine_vars, ctx_vars, store_vars, server_vars, journal_vars, factory_vars, fetch_vars, stream_vars>>

\* prepare_turn lines 427-438: compress_and_commit, then the commit
PTCompress(outcome, new_ccs) ==
    /\ pt.pc = "compress"
    /\ pt' = [pt EXCEPT
                !.artifacts_str = ArtifactsStr(pt.qualified_artifacts),
                !.current_ccs = CcsAfterPrepare(outcome, @, new_ccs),
                !.error = IF outcome = "ok" THEN "none" ELSE "compress",
                !.pc = IF outcome = "ok" THEN "returned" ELSE "raised"]
    /\ UNCHANGED <<window_vars, engine_vars, ctx_vars, store_vars, server_vars, journal_vars, factory_vars, fetch_vars, stream_vars>>

PrepareNext ==
    \/ \E backend \in Backends : PTRecall(backend)
    \/ \E answer \in QualifyAnswers : PTQualify(answer)
    \/ \E outcome \in {"ok", "compress_raise"}, new_ccs \in OracleCCS :
           PTCompress(outcome, new_ccs)

(***************************************************************************)
(* SpecJournal: MemoryManager's daily logs over several days.  jr.logs is  *)
(* the memory directory by date (Absent where the day has no file),        *)
(* jr.today is datetime.date.today(), jr.last the read that has just       *)
(* returned, if the last call was a read.                                  *)
(***************************************************************************)
MaxDates == 4
MaxReadDays == 5
MaxLogBlocks == 1

\* the calendar of the model, across a change of year
Dates == 1..MaxDates

\* date.strftime('%Y-%m-%d')
DateStr(d) ==
    CASE d = 1 -> "2025-12-30"
      [] d = 2 -> "2025-12-31"
      [] d = 3 -> "2026-01-01"
      [] d = 4 -> "2026-01-02"
      [] OTHER -> "2026-01-03"

\* log_path.exists(): days outside the calendar have no file
LogExists(logs, d) == d \in DOMAIN logs /\ logs[d] # Absent

\* f"# {date.strftime('%Y-%m-%d')}\n\n{content}"
LogWithHeader(logs, d) == <<"# ", DateStr(d), "\n\n">> \o logs[d]

\* "\n\n".join(logs)
RECURSIVE JoinLogs(_)
JoinLogs(entries) ==
    IF entries = <<>> THEN <<>>
    ELSE IF Len(entries) = 1 THEN Head(entries)
    ELSE Head(entries) \o <<"\n\n">> \o JoinLogs(Tail(entries))

\* the loop "for i in range(first, last, -1)" of read_recent_daily_logs: the
\* entries of the days today - first, ..., today - (last + 1) that have a file
RECURSIVE CollectLogs(_, _, _, _)
CollectLogs(logs, today, first, last) ==
    IF first <= last THEN <<>>
    ELSE (IF LogExists(logs, today - first)
          THEN <<LogWithHeader(logs, today - first)>> ELSE <<>>)
         \o CollectLogs(logs, today, first - 1, last)

\* a loop over range(days, 0, -1): it stops at yesterday
ReadRecentDailyLogsBeforeToday(logs, today, days) ==
    JoinLogs(CollectLogs(logs, today, days, 0))

\* MemoryManager.read_recent_daily_logs(days)
ReadRecentDailyLogsOf(logs, today, days) ==
    JoinLogs(CollectLogs(logs, today, days - 1, -1))

LogContents == {"entry1", "entry2"}

JournalIdle == jr = [op |-> "idle"]

\* a fresh memory directory on the first day of the calendar
JournalInit == jr = [logs |-> [d \in Dates |-> Absent], today |-> 1, blocks |-> 0,
                     last |-> [op |-> "none"]]

\* MemoryManager.append_daily_log(content), on today's file
JrAppend(content) ==
    /\ jr.blocks < MaxLogBlocks
    /\ jr' = [jr EXCEPT !.logs[jr.today] = AppendDailyLog(@, content),
                        !.blocks = @ + 1, !.last = [op |-> "none"]]
    /\ UNCHANGED <<window_vars, engine_vars, ctx_vars, store_vars, prepare_vars,
                   server_vars, factory_vars, fetch_vars, stream_vars>>

\* midnight passes
JrNextDay ==
    /\ jr.today < MaxDates
    /\ jr' = [jr EXCEPT !.today = @ + 1, !.blocks = 0, !.last = [op |-> "none"]]
    /\ UNCHANGED <<window_vars, engine_vars, ctx_vars, store_vars, prepare_vars,
                   server_vars, factory_vars, fetch_vars, stream_vars>>

\* a call of read_recent_daily_logs(days)
JrRead(days) ==
    /\ jr' = [jr EXCEPT !.last = [op |-> "read", days |-> days,
                                  result |-> ReadRecentDailyLogsOf(jr.logs, jr.today, days)]]
    /\ UNCHANGED <<window_vars, engine_vars, ctx_vars, store_vars, prepare_vars,
                   server_vars, factory_vars, fetch_vars, stream_vars>>

JournalNext ==
    \/ \E content \in LogContents : JrAppend(content)
    \/ JrNextDay
    \/ \E days \in 0..MaxReadDays : JrRead(days)

(***************************************************************************)
(* SpecFactory: llm_factory under the environment variables.  Provider     *)
(* names are sequences of characters, so that lower() is computed; the API *)
(* keys are set.                                                           *)
(***************************************************************************)
\* str.lower() on the letters that occur
LowerChar(c) ==
    CASE c = "G" -> "g" [] c = "E" -> "e" [] c = "M" -> "m" [] c = "I" -> "i"
      [] c = "N" -> "n" [] c = "O" -> "o" [] c = "P" -> "p" [] c = "A" -> "a"
      [] OTHER -> c
LowerText(text) == [i \in 1..Len(text) |-> LowerChar(text[i])]

\* a comparison that forgets lower()
IsGeminiCaseSensitive(env) ==
    (IF env.ACC_LLM_PROVIDER = None THEN <<"o", "p", "e", "n", "a", "i">>
     ELSE env.ACC_LLM_PROVIDER) = <<"g", "e", "m", "i", "n", "i">>

\* os.getenv("ACC_LLM_PROVIDER", "openai").lower() == "gemini"
IsGemini(env) ==
    LowerText(IF env.ACC_LLM_PROVIDER = None THEN <<"o", "p", "e", "n", "a", "i">>
              ELSE env.ACC_LLM_PROVIDER) = <<"g", "e", "m", "i", "n", "i">>

\* Python's "not model_name": None and the empty string alike
NotGiven(model_name) == model_name = None \/ model_name = <<>>

\* get_llm_model(model_name): the class built and the model name it is given
GetLlmModel(env, model_name) ==
    LET named == IF NotGiven(model_name) THEN env.ACC_LLM_MODEL ELSE model_name
    IN  IF IsGemini(env)
        THEN [class |-> "ChatGoogleGenerativeAI",
              model |-> IF NotGiven(named) THEN <<"gemini-2.5-flash">> ELSE named]
        ELSE [class |-> "ChatOpenAI",
              model |-> IF NotGiven(named) THEN <<"gpt-5-mini">> ELSE named]

\* get_embedding_function()
GetEmbeddingFunction(env) ==
    IF IsGemini(env)
    THEN [class |-> "LangChainEmbeddingAdapter",
          wraps |-> "GoogleGenerativeAIEmbeddings"]
    ELSE [class |-> "OpenAIEmbeddingFunction", wraps |-> "none"]

EnvProviders ==
    { None, <<>>,
      <<"o", "p", "e", "n", "a", "i">>, <<"O", "p", "e", "n", "A", "I">>,
      <<"g", "e", "m", "i", "n", "i">>, <<"G", "e", "m", "i", "n", "i">>,
      <<"G", "E", "M", "I", "N", "I">>, <<"g", "e", "m", "i", "n", "i", " ">>,
      <<"g", "e", "m", "i", "n">> }
EnvModels == { None, <<>>, <<"env-model">> }
ArgModels == { None, <<>>, <<"arg-model">> }

FactoryIdle == llm = [op |-> "idle"]

FactoryInit ==
    /\ llm \in [env : [ACC_LLM_PROVIDER : EnvProviders, ACC_LLM_MODEL : EnvModels],
                last : {[op |-> "none"]}]

\* a call of get_llm_model(model_name)
FGetLlmModel(model_name) ==
    /\ llm' = [llm EXCEPT !.last = [op |-> "get_llm_model", model_name |-> model_name,
                                    result |-> GetLlmModel(llm.env, model_name)]]
    /\ UNCHANGED <<window_vars, engine_vars, ctx_vars, store_vars, prepare_vars,
                   server_vars, journal_vars, fetch_vars, stream_vars>>

\* a call of get_embedding_function()
FGetEmbeddingFunction ==
    /\ llm' = [llm EXCEPT !.last = [op |-> "get_embedding_function",
                                    result |-> GetEmbeddingFunction(llm.env)]]
    /\ UNCHANGED <<window_vars, engine_vars, ctx_vars, store_vars, prepare_vars,
                   server_vars, journal_vars, fetch_vars, stream_vars>>

FactoryNext ==
    \/ \E model_name \in ArgModels : FGetLlmModel(model_name)
    \/ FGetEmbeddingFunction

(***************************************************************************)
(* GET /state/{session_id}                                                 *)
(***************************************************************************)
\* CompressedCognitiveState.model_dump(): the fields as a plain object
ModelDump(ccs) == [field \in DOMAIN ccs |-> ccs[field]]
EmptyObject == <<>>

\* a handler that answers {} whatever the controller holds
StateBodyAlwaysEmpty(ccs) == EmptyObject

\* lines 88-91: the body returned for a known session
StateBody(ccs) == IF ccs # NoCCS THEN ModelDump(ccs) ELSE EmptyObject

FetchIdle == fetched = NoResponse

\* get_state(session_id)
GetState(s) ==
    /\ fetched' = IF s \notin sessions
                  THEN [op |-> "get_state", session_id |-> s, status |-> 404,
                        detail |-> "Session not found"]
                  ELSE [op |-> "get_state", session_id |-> s, status |-> 200,
                        body |-> StateBody(current_ccs[s])]
    /\ UNCHANGED <<window_vars, engine_vars, ctx_vars, store_vars, prepare_vars,
                   server_vars, journal_vars, factory_vars, stream_vars>>

FetchNext == \E s \in Sessions : GetState(s)

ServerIdle ==
    /\ sessions = {}
    /\ current_ccs = <<>>
    /\ history = <<>>
    /\ user_context = <<>>
    /\ agents_context = <<>>
    /\ recent_memory = <<>>
    /\ files = <<>>
    /\ ledger = <<>>
    /\ journal = <<>>
    /\ store = <<>>
    /\ req = <<>>

\* ---- SpecAct: one turn's stream_generator after a successful Prepare,
\* pulling the fragments that generate_response_stream yields

StreamIdle == sg = [pc |-> "idle"]

StreamInit ==
    /\ script = <<>>
    /\ eng_store \in EngStores
    /\ gr = [pc |-> "idle"]
    /\ gs = [pc |-> "invoke", chunk |-> None, pos |-> 0, tool_iterations |-> 0,
             messages |-> <<Prompt>>, calls |-> 0, rounds |-> 0,
             executed |-> <<>>, out |-> <<>>]
    /\ \E ccs \in OracleCCS :
           sg = [pc |-> "acting", user_input |-> "what is the code",
                 current_ccs |-> ccs, taken |-> 0, full_response |-> <<>>,
                 stream |-> <<>>, store |-> <<>>, history |-> <<>>]

\* stream_generator lines 50-52: the next fragment of stream_action is added
\* to full_response and passed on to the caller
SGChunk ==
    /\ sg.pc = "acting"
    /\ sg.taken < Len(gs.out)
    /\ LET chunk == gs.out[sg.taken + 1]
       IN  sg' = [sg EXCEPT !.taken = @ + 1,
                            !.full_response = FullResponseAfter(@, chunk),
                            !.stream = Append(@, chunk)]
    /\ UNCHANGED <<window_vars, engine_vars, ctx_vars, store_vars, prepare_vars, server_vars, journal_vars, factory_vars, fetch_vars>>

\* stream_generator lines 53-55: the stream raised after its last fragment
SGRaise ==
    /\ sg.pc = "acting"
    /\ sg.taken = Len(gs.out)
    /\ gs.pc = "raised"
    /\ sg' = [sg EXCEPT !.stream = Append(@, ActErrorText),
                        !.pc = PcAfterActRaise]
    /\ UNCHANGED <<window_vars, engine_vars, ctx_vars, store_vars, prepare_vars, server_vars, journal_vars, factory_vars, fetch_vars>>

\* the caller's connection drops while the reply is streamed
SGDisconnect ==
    /\ sg.pc = "acting"
    /\ sg.taken > 0
    /\ sg' = [sg EXCEPT !.pc = "cancelled"]
    /\ UNCHANGED <<window_vars, engine_vars, ctx_vars, store_vars, prepare_vars, server_vars, journal_vars, factory_vars, fetch_vars>>

\* stream_generator line 59: the stream is exhausted, finalize_turn is
\* scheduled with full_response as it stands
SGEnd ==
    /\ sg.pc = "acting"
    /\ sg.taken = Len(gs.out)
    /\ gs.pc = "done"
    /\ sg' = [sg EXCEPT !.pc = "scheduled"]
    /\ UNCHANGED <<window_vars, engine_vars, ctx_vars, store_vars, prepare_vars, server_vars, journal_vars, factory_vars, fetch_vars>>

\* finalize_turn lines 496-503 for response_text = full_response: the
\* episodic trace and the two history messages (the introspection writes of
\* lines 461-492 do not take the reply further and are left to Spec)
SGFinalize ==
    /\ sg.pc = "scheduled"
    /\ sg' = [sg EXCEPT
                !.store = AddArtifact(@,
                              EpisodicTrace(sg.user_input, sg.full_response,
                                            sg.current_ccs.semantic_gist),
                              "episodic_memory"),
                !.history = DequeAppend(DequeAppend(@, HumanMessage(sg.user_input)),
                                        AIMessage(sg.full_response)),
                !.pc = "done"]
    /\ UNCHANGED <<window_vars, engine_vars, ctx_vars, store_vars, prepare_vars, server_vars, journal_vars, factory_vars, fetch_vars>>

SGNext == SGChunk \/ SGRaise \/ SGDisconnect \/ SGEnd \/ SGFinalize

OthersIdle == JournalIdle /\ FactoryIdle /\ FetchIdle /\ StreamIdle

InitWindow == WindowInit /\ EngineIdle /\ CtxIdle /\ StoreIdle /\ PrepareIdle /\ ServerIdle /\ OthersIdle
InitEngine == WindowInit /\ EngineInit /\ CtxIdle /\ StoreIdle /\ PrepareIdle /\ ServerIdle /\ OthersIdle
InitCtx == WindowInit /\ EngineIdle /\ CtxInit /\ StoreIdle /\ PrepareIdle /\ ServerIdle /\ OthersIdle
InitStore == WindowInit /\ EngineIdle /\ CtxIdle /\ StoreInit /\ PrepareIdle /\ ServerIdle /\ OthersIdle
InitPrepare == WindowInit /\ EngineIdle /\ CtxIdle /\ StoreIdle /\ PrepareInit /\ ServerIdle /\ OthersIdle
Init == WindowInit /\ EngineIdle /\ CtxIdle /\ StoreIdle /\ PrepareIdle /\ ServerInit /\ OthersIdle

SpecWindow == InitWindow /\ [][WindowNext]_vars

SpecEngine == InitEngine /\ [][EngineNext]_vars

\* generate_response alone: a sequential program takes its next step
SpecGenerate == InitEngine /\ [][GRNext]_vars /\ WF_vars(GRNext)

SpecCtx == InitCtx /\ [][CtxNext]_vars

SpecStore == InitStore /\ [][StoreNext]_vars

SpecPrepare == InitPrepare /\ [][PrepareNext]_vars

Spec == Init /\ [][ServerNext]_vars

InitJournal == WindowInit /\ EngineIdle /\ CtxIdle /\ StoreIdle /\ PrepareIdle /\ ServerIdle /\ JournalInit /\ FactoryIdle /\ FetchIdle /\ StreamIdle
InitFactory == WindowInit /\ EngineIdle /\ CtxIdle /\ StoreIdle /\ PrepareIdle /\ ServerIdle /\ JournalIdle /\ FactoryInit /\ FetchIdle /\ StreamIdle

SpecJournal == InitJournal /\ [][JournalNext]_vars

SpecFactory == InitFactory /\ [][FactoryNext]_vars

InitAct == WindowInit /\ StreamInit /\ CtxIdle /\ StoreIdle /\ PrepareIdle /\ ServerIdle /\ JournalIdle /\ FactoryIdle /\ FetchIdle

\* one turn from the start of Act to the end of its Finalize
SpecAct == InitAct /\ [][GSNext \/ SGNext]_vars

\* the server with clients that also poll GET /state
SpecSessions == Init /\ [][ServerNext \/ FetchNext]_vars

\* the server with its event loop and its thread pool running whatever task
\* is ready
SpecFair == Init /\ [][ServerNext]_vars /\ WF_vars(ServerNext)

(***************************************************************************)
(* The claims.                                                             *)
(***************************************************************************)

\* C1 (SpecWindow): the window never holds more than 15 messages, and it is
\* always the most recent min(15, n) of the n messages appended so far, in
\* the order they were appended.
C1_WindowIsMostRecent ==
    /\ Len(window) <= 15
    /\ LET n == Len(appended)
       IN  window = IF n > 15 THEN SubSeq(appended, n - 14, n) ELSE appended

\* C1 witness: more than 15 messages were appended and the oldest were evicted.
C1_Witness ==
    /\ Len(appended) > 15
    /\ Len(window) = 15
    /\ window[1] = appended[Len(appended) - 14]
    /\ window[15] = appended[Len(appended)]

EveryResponseRequested(n) ==
    \A i \in 1..n : script[i].kind = "msg" /\ script[i].tool_calls # <<>>

GRTerminated == gr.pc \in {"done", "raised"}

\* C2 (SpecGenerate): generate_response terminates for every oracle; it
\* never invokes the oracle more than 4 times nor runs more than 3 rounds of
\* capability calls, and when every response requests a capability it ends
\* after exactly 3 re-invocations (4 invocations) and 3 rounds.
C2_GenerateTerminatesWithinCap ==
    /\ [](/\ gr.calls <= 4
          /\ gr.rounds <= 3
          /\ (gr.pc = "done" /\ EveryResponseRequested(gr.calls))
                => (gr.calls = 4 /\ gr.rounds = 3))
    /\ <>GRTerminated

\* C2 witness: the oracle asked for a capability in all of its 4 responses.
C2_Witness ==
    /\ gr.pc = "done"
    /\ gr.calls = 4
    /\ gr.rounds = 3
    /\ EveryResponseRequested(4)

\* the Prepare step of request r: it leaves "received"
PrepareStep(r) == req[r].pc = "received" /\ req'[r].pc # "received"

\* C3 (Spec), as claimed: a commit on an input without a revision instruction
\* keeps every constraint of the previous CCS and its goal_orientation.
C3_StickyFieldsKept ==
    [][\A r \in Requests :
         LET s == req[r].session
         IN  ( /\ req[r].pc = "received" /\ req'[r].pc = "acting"
               /\ ~req[r].input.revision
               /\ current_ccs[s] # NoCCS )
             => /\ Elems(current_ccs[s].constraints)
                     \subseteq Elems(current_ccs'[s].constraints)
                /\ current_ccs'[s].goal_orientation = current_ccs[s].goal_orientation
      ]_vars

\* C4 (Spec): when the oracle call of Compress & Commit raises, the caller
\* gets the error text, the CCS of every session is what it was, and the
\* request stays where the error left it: neither Act nor Finalize runs.
C4_CompressFailureCommitsNothing ==
    [][\A r \in Requests :
         /\ ( req[r].pc = "received" /\ req'[r].pc = "prep_error"
              /\ req'[r].error = "compress_raise" )
            => /\ current_ccs' = current_ccs
               /\ req'[r].stream = <<PrepErrorText>>
               /\ req'[r].full_response = <<>>
         /\ ( req[r].pc = "prep_error" /\ req[r].error = "compress_raise" )
            => req'[r] = req[r]
      ]_vars

\* C4 witness: Compress & Commit failed in a session that had a CCS.
C4_Witness ==
    \E r \in Requests :
        /\ req[r].pc = "prep_error"
        /\ req[r].error = "compress_raise"
        /\ current_ccs[req[r].session] # NoCCS

FinalizeStarted ==
    {"journal", "facts", "reload", "episodic", "history_user", "history_agent"}
FinalizePending == {"scheduled"} \cup FinalizeStarted

\* C5 (Spec), as claimed: when a Prepare runs, no Finalize of the same session
\* is scheduled and not yet completed.
C5_FinalizeBeforeNextPrepare ==
    [][\A r \in Requests :
         PrepareStep(r) =>
             ~\E q \in Requests :
                 /\ q # r
                 /\ req[q].session = req[r].session
                 /\ req[q].pc \in FinalizePending
      ]_vars

\* C6 (Spec), as claimed: when a Prepare runs, no other request of the same
\* session is between its own Prepare and the end of its Act.
C6_TurnsSequential ==
    [][\A r \in Requests :
         PrepareStep(r) =>
             ~\E q \in Requests :
                 /\ q # r
                 /\ req[q].session = req[r].session
                 /\ req[q].pc = "acting"
      ]_vars

CtxGate(new, before) ==
    /\ new # None
    /\ new # <<>>
    /\ Strip(new) # Strip(ReadText(before))
    /\ Len(new) > 10

CtxDocOk(name, new, before, after) ==
    LET ok == ~ctx_last.oracle.failed /\ CtxGate(new, before)
        reported == InSeq(name, ctx_last.updated)
    IN  /\ reported => (ok /\ after = new)
        /\ after # before => (ok /\ after = new)
        /\ ~ok => (after = before /\ ~reported)

\* C7 (SpecCtx): a document is written, and its name reported, only if the
\* oracle did not fail, proposed a non-empty text that differs from the
\* current text after trimming both, and the proposal is longer than 10;
\* otherwise the document is untouched and its name is not reported.
C7_RewriteOnlyWhenGated ==
    ctx_last.called =>
        /\ CtxDocOk("USER.md", ctx_last.oracle.new_user_md,
                    ctx_last.before.user, ctx_files.user)
        /\ CtxDocOk("AGENTS.md", ctx_last.oracle.new_agents_md,
                    ctx_last.before.agents, ctx_files.agents)

\* C7 witness: a proposal of 11 characters, 9 of them after trimming, replaced
\* a different document and was reported.
C7_Witness ==
    /\ ctx_last.called
    /\ ctx_last.oracle.new_user_md = DocBPadded
    /\ ctx_last.before.user = DocA
    /\ ctx_files.user = DocBPadded
    /\ InSeq("USER.md", ctx_last.updated)

\* C8 (Spec), as claimed: when Finalize reloads the documents that were
\* reported as rewritten, each in-memory copy becomes the content of the
\* document the Introspection Cycle reads and writes.
C8_ReloadIsWhatWasPersisted ==
    [][\A r \in Requests :
         (req[r].pc = "reload" /\ req'[r].pc = "episodic") =>
             LET s == req[r].session
             IN  /\ InSeq("USER.md", req[r].updated_files)
                      => user_context'[s] = ReadText(files[IntrospectionPath("USER.md")])
                 /\ InSeq("AGENTS.md", req[r].updated_files)
                      => agents_context'[s] = ReadText(files[IntrospectionPath("AGENTS.md")])
      ]_vars

EngineTerminal == {"done", "raised"}

\* C9 (SpecEngine), as claimed: once both variants have ended on the same
\* oracle, they made the same number of oracle invocations, ran the same
\* capability calls and ended on the same oracle response.
C9_StreamSameAsInvoke ==
    (gr.pc \in EngineTerminal /\ gs.pc \in EngineTerminal) =>
        /\ gr.calls = gs.calls
        /\ gr.executed = gs.executed
        /\ script[gr.calls] = script[gs.calls]

\* C10 (Spec): a request whose Prepare raised has the one error text as its
\* stream; a request whose Act raised has the fragments delivered so far and
\* then the error marker; neither ever moves again, so finalize_turn is never
\* scheduled for it; and every change of a history window, the journal, the
\* ledger's lines or the artifact store is a finalize step of a request that
\* had no error.
C10_FailedTurnNeverFinalized ==
    /\ [](\A r \in Requests :
            /\ req[r].pc = "prep_error" => req[r].stream = <<PrepErrorText>>
            /\ req[r].pc = "act_error" =>
                 LET n == Len(req[r].stream)
                 IN  /\ n >= 1
                     /\ req[r].stream[n] = ActErrorText
                     /\ Flatten(SubSeq(req[r].stream, 1, n - 1)) = req[r].full_response)
    /\ [][\A r \in Requests :
            req[r].pc \in {"prep_error", "act_error"} => req'[r] = req[r]]_vars
    /\ [][( \/ history' # history
            \/ journal' # journal
            \/ (ledger' # ledger /\ ledger' # EnsureLedger(ledger))
            \/ store' # store )
          => \E r \in Requests :
                 /\ req[r].pc \in FinalizePending
                 /\ req'[r] # req[r]
                 /\ req[r].error = "none"]_vars

\* C10 witness: Act raised after a fragment had been delivered.
C10_Witness ==
    \E r \in Requests :
        /\ req[r].pc = "act_error"
        /\ Len(req[r].stream) = 2
        /\ req[r].stream[1] = <<"a">>

\* C13 (SpecStore): a recall that the backend answers returns without an
\* error, returns at most n_results documents, all of them documents of the
\* store, and returns the empty sequence on an empty store: an empty store is
\* by itself no error.  (What recall does when the backend raises is C14.)
C13_RecallBoundedAndEmptyOnEmpty ==
    (art.last.op = "recall" /\ art.last.backend = "ok") =>
        LET value == art.last.result.value
        IN  /\ ~art.last.result.raised
            /\ Len(value) <= art.last.n_results
            /\ \A i \in 1..Len(value) : value[i] \in Elems(art.docs)
            /\ art.docs = <<>> => value = <<>>

\* C13 witness: a store of 4 documents answered a recall of 3 with 3 of them.
C13_Witness ==
    /\ art.last.op = "recall"
    /\ art.last.backend = "ok"
    /\ Len(art.docs) = 4
    /\ art.last.n_results = 3
    /\ Len(art.last.result.value) = 3

\* C15 (SpecPrepare): when the oracle call of Qualify raised, the qualified
\* set is empty, prepare_turn has not ended with that error but stands before
\* or behind Compress & Commit, and Compress & Commit was shown no artifacts.
C15_QualifyFailureGivesEmptySet ==
    pt.qualify = "raised" =>
        /\ pt.qualified_artifacts = <<>>
        /\ pt.pc \in {"compress", "returned", "raised"}
        /\ pt.pc = "raised" => pt.error = "compress"
        /\ pt.pc \in {"returned", "raised"} => pt.artifacts_str = <<"None">>

\* C15 witness: recall found artifacts, Qualify raised, and the turn committed
\* the CCS of Compress & Commit.
C15_Witness ==
    /\ pt.qualify = "raised"
    /\ pt.raw_artifacts # <<>>
    /\ pt.pc = "returned"
    /\ pt.current_ccs \in OracleCCS

\* C20 (SpecStore): the search_memory capability returns the sentinel exactly
\* when the store has nothing to recall, and otherwise the first min(3, n)
\* documents in order, joined by the separator line.
C20_SearchJoinsUpToThree ==
    (art.last.op = "search" /\ ~art.last.result.raised) =>
        LET value == art.last.result.value
            m == Min(3, Len(art.docs))
        IN  /\ (value = NoInformation) <=> (art.docs = <<>>)
            /\ art.docs # <<>> =>
                 /\ Len(value) = 2 * m - 1
                 /\ \A i \in 1..m : value[2 * i - 1] = art.docs[i][1]
                 /\ \A i \in 1..(m - 1) : value[2 * i] = "\n---\n"

\* C20 witness: the seeded artifact is in the result of a search over a store
\* of 4 documents, of which 3 are joined.
C20_Witness ==
    /\ art.last.op = "search"
    /\ ~art.last.result.raised
    /\ Len(art.docs) = 4
    /\ art.docs[2] = <<"The secret code is ALPHA">>
    /\ Len(art.last.result.value) = 5
    /\ art.last.result.value[3] = "The secret code is ALPHA"

\* C11 (SpecFair), as claimed: a turn whose connection dropped during the
\* streaming of its reply still gets its Finalize run to completion.
C11_DroppedTurnStillFinalized ==
    \A r \in 1..MaxRequests :
        []((r \in Requests /\ req[r].pc = "cancelled")
             => <>(r \in Requests /\ req[r].pc = "done"))

IsPrefix(a, b) == Len(a) <= Len(b) /\ SubSeq(b, 1, Len(a)) = a

\* a file that is created or appended to, never rewritten
FileAppendedOnly(old, new) ==
    \/ new = old
    \/ old = Absent
    \/ new # Absent /\ IsPrefix(old, new)

\* C12 (Spec), as claimed: a step of a request of session a changes no other
\* session's CCS, history window or in-memory configuration copies, and while
\* another session has a controller it changes state that the sessions share
\* (artifact store, ledger, journal, configuration documents on disk) only by
\* appending.
C12_SessionsIsolated ==
    [][\A r \in 1..Len(req') :
         (r > Len(req) \/ req'[r] # req[r]) =>
             LET a == req'[r].session
             IN  /\ \A b \in Sessions \ {a} :
                      /\ current_ccs'[b] = current_ccs[b]
                      /\ history'[b] = history[b]
                      /\ user_context'[b] = user_context[b]
                      /\ agents_context'[b] = agents_context[b]
                 /\ (\E b \in sessions : b # a) =>
                      /\ IsPrefix(store, store')
                      /\ FileAppendedOnly(ledger, ledger')
                      /\ FileAppendedOnly(journal, journal')
                      /\ \A p \in Paths : FileAppendedOnly(files[p], files'[p])
      ]_vars

\* C14 (Spec), as claimed: a backend error during the recall of Prepare does
\* not fail the turn.
C14_RecallFailureIsSoft ==
    \A r \in Requests :
        ~(req[r].pc = "prep_error" /\ req[r].error = "recall_raise")

\* the step of finalize_turn that logs the journal entry of request r
JournalStep(r) == req[r].pc = "journal" /\ req'[r].pc = "facts"
\* the step of finalize_turn that logs the facts of request r
FactsStep(r) == req[r].pc = "facts" /\ req'[r].pc = "reload"

\* C16 (Spec), as claimed: when the journal oracle call failed, the journal
\* step of Finalize still writes to the day's journal.
C16_JournalFailureKeepsExchange ==
    [][\A r \in Requests :
         (JournalStep(r) /\ req[r].journal_answer = Raised) =>
             /\ journal' # Absent
             /\ journal' # journal
      ]_vars

\* C17 (Spec): when the journal oracle answered NONE, with or without
\* surrounding whitespace, the journal step leaves the day's journal as it
\* was, absent or not; and the journal changes in no other step than the
\* journal step of a request whose oracle gave an entry.
C17_NoEntryLeavesJournalAlone ==
    /\ [][\A r \in Requests :
            (JournalStep(r) /\ Strip(req[r].journal_answer) = JournalNone)
                => journal' = journal]_vars
    /\ [][journal' # journal =>
            \E r \in Requests :
                /\ JournalStep(r)
                /\ req[r].journal_answer # Raised
                /\ Strip(req[r].journal_answer) # JournalNone]_vars

\* C17 witness: the oracle answered NONE inside whitespace, the journal step
\* is over, and the journal that an earlier turn wrote is as that turn left it.
C17_Witness ==
    \E r \in Requests :
        /\ req[r].pc = "facts"
        /\ req[r].journal_answer = <<" ">> \o JournalNone \o <<"\n">>
        /\ journal = AppendDailyLog(Absent, <<"J">>)

\* C18 (SpecFair): when the fact oracle call failed, the facts step writes
\* nothing to the ledger or the artifact store, and the Finalize of that
\* request goes on to its end (reload, episodic trace, history appends)
\* unless a store write of a later step raises.
C18_FactFailureWritesNothing ==
    /\ [][\A r \in Requests :
            (FactsStep(r) /\ req[r].facts_answer = Raised)
                => (ledger' = ledger /\ store' = store /\ req[r].facts = <<>>)]_vars
    /\ \A r \in 1..MaxRequests :
         []((r \in Requests /\ req[r].pc = "journal" /\ req[r].facts_answer = Raised)
              => <>(r \in Requests /\ req[r].pc \in {"done", "fin_error"}))

\* C18 witness: the fact oracle failed, the facts step is over, and the
\* configuration check of the same cycle had rewritten USER.md.
C18_Witness ==
    \E r \in Requests :
        /\ req[r].pc = "reload"
        /\ req[r].facts_answer = Raised
        /\ InSeq("USER.md", req[r].updated_files)
        /\ files[IntrospectionPath("USER.md")] = DocUser2

\* C19 (Spec): the facts step with facts F appends to the ledger, after all
\* it held, one line "- <fact>\n" per element of F in order, and adds each
\* element of F once, in order, at the end of the artifact store; with no
\* facts it changes neither; and no step ever removes or rewrites ledger
\* content, so read_long_term_memory of a later Prepare returns the lines.
C19_FactsAppendedOncePerFact ==
    /\ [][\A r \in Requests :
            FactsStep(r) =>
                LET F == req[r].facts
                    n == Len(ledger)
                    m == Len(store)
                IN  /\ IsPrefix(ledger, ledger')
                    /\ Len(ledger') = n + 3 * Len(F)
                    /\ \A i \in 1..Len(F) :
                         /\ ledger'[n + 3 * i - 2] = "- "
                         /\ ledger'[n + 3 * i - 1] = F[i]
                         /\ ledger'[n + 3 * i] = "\n"
                    /\ IsPrefix(store, store')
                    /\ Len(store') = m + Len(F)
                    /\ \A i \in 1..Len(F) :
                         /\ store'[m + i].content = [fact |-> F[i]]
                         /\ store'[m + i].type = "semantic_memory"
         ]_vars
    /\ [][IsPrefix(ReadLongTermMemory(ledger), ReadLongTermMemory(ledger'))]_vars

\* C19 witness: a turn's two facts are the last lines of the ledger while the
\* next request stands before its Prepare.
C19_Witness ==
    \E r \in Requests :
        /\ req[r].pc = "received"
        /\ ReadLongTermMemory(ledger)
             = <<"# Long-term Memory\n\n", "- ", "f1", "\n", "- ", "f2", "\n">>
        /\ Len(store) >= 2
        /\ store[1].content = [fact |-> "f1"]
        /\ store[2].content = [fact |-> "f2"]

\* C24 (SpecWindow), as claimed: whenever a whole number of turns has been
\* appended, the window consists of whole (user, agent) pairs: it has an even
\* number of messages, its oldest entry is a user message and the roles
\* alternate from there.
C24_WindowHoldsWholePairs ==
    (Len(appended) % 2 = 0) =>
        /\ Len(window) % 2 = 0
        /\ \A i \in 1..Len(window) :
            window[i].role = IF i % 2 = 1 THEN "user" ELSE "agent"

\* the fragments one oracle response makes the stream yield
NonEmptyChunk(content) == content # <<>>
Fragments(chunks) == SelectSeq(chunks, NonEmptyChunk)

\* what the caller of generate_response_stream must have received once the
\* first n oracle streams have ended
RECURSIVE StreamedThrough(_)
StreamedThrough(n) ==
    IF n = 0 THEN <<>>
    ELSE StreamedThrough(n - 1) \o Fragments(script[n].chunks)
         \o (IF script[n].kind = "msg" /\ script[n].tool_calls # <<>>
             THEN <<SearchingMarker>> ELSE <<>>)

\* C25 (SpecEngine): what the stream has yielded is, iteration by iteration,
\* the non-empty fragments of the oracle in the oracle's order, followed by
\* exactly one progress marker if the iteration carried capability requests;
\* while an oracle stream is still open only its fragments so far have been
\* added, and a capability runs only after the stream of its iteration has
\* ended and the marker has been yielded.
C25_StreamOrderAndMarker ==
    /\ [](gs.pc = "invoke" => gs.out = StreamedThrough(gs.calls))
    /\ [](gs.pc = "chunks" =>
            gs.out = StreamedThrough(gs.calls - 1)
                     \o Fragments(SubSeq(gs.chunk.chunks, 1, gs.pos)))
    /\ [](gs.pc \in {"tools", "done", "raised"} =>
            gs.out = StreamedThrough(gs.calls))
    /\ [][gs.executed' # gs.executed =>
            /\ gs.pc = "tools"
            /\ gs.pos = Len(gs.chunk.chunks)
            /\ gs.out # <<>>
            /\ gs.out[Len(gs.out)] = SearchingMarker
            /\ gs'.out = gs.out]_vars

\* C25 witness: a first iteration with one fragment and two capability
\* requests, then a final answer with an empty fragment between two others.
C25_Witness ==
    /\ gs.pc = "done"
    /\ gs.calls = 2
    /\ Len(gs.executed) = 2
    /\ gs.out = << <<"t">>, SearchingMarker, <<"a">>, <<"b">> >>

\* C26 (SpecGenerate): generate_response returns the content of the last
\* oracle response it received; that response carries no capability request
\* unless the cap of 3 rounds was reached, and then its pending requests
\* were not executed: the capabilities run are those of the earlier
\* responses only.
C26_ReturnsLastContent ==
    gr.pc = "done" =>
        /\ gr.result = Flatten(script[gr.calls].chunks)
        /\ script[gr.calls].tool_calls # <<>> =>
            (gr.tool_iterations = MaxToolIterations /\ gr.rounds = MaxToolIterations)
        /\ gr.rounds = gr.calls - 1
        /\ \A i \in 1..(gr.calls - 1) : script[i].tool_calls # <<>>
        /\ Len(gr.executed) = Len(Flatten([i \in 1..(gr.calls - 1) |-> script[i].tool_calls]))

\* C26 witness: the cap was hit on a response that has content and two
\* pending requests.
C26_Witness ==
    /\ gr.pc = "done"
    /\ gr.calls = 4
    /\ script[4].tool_calls # <<>>
    /\ gr.result = <<"t">>

\* the controller state of session s
Controller(s) ==
    <<current_ccs[s], history[s], user_context[s], agents_context[s], recent_memory[s]>>

\* C21 (SpecSessions): the sessions that have a controller are exactly the
\* ids that chat requests carried; a chat request creates the controller of
\* an id on its first use, with no CCS, and leaves an existing controller as
\* it is; a body without session_id is a request of session 'default'; a
\* state fetch changes nothing, creates no session, answers 404 for an id
\* without controller and otherwise 200 with the fields of the controller's
\* current CCS, or with the empty object if it has none.
C21_SessionsAndStateFetch ==
    /\ [](sessions = {req[r].session : r \in Requests})
    /\ [][\A s \in Sessions :
            (Len(req') > Len(req) /\ req'[Len(req')].session = s) =>
                /\ sessions' = sessions \cup {s}
                /\ s \in sessions => Controller(s)' = Controller(s)
                /\ s \notin sessions => current_ccs'[s] = NoCCS
                /\ \A b \in Sessions \ {s} : Controller(b)' = Controller(b)]_vars
    /\ [][\A body \in ChatBodies :
            ("session_id" \notin DOMAIN body
             /\ ChatEndpoint(SessionIdOf(body), body.message))
                => req'[Len(req')].session = "default"]_vars
    /\ [][\A s \in Sessions :
            (fetched'.op = "get_state" /\ fetched'.session_id = s) =>
                /\ server_vars' = server_vars
                /\ IF s \notin sessions
                   THEN fetched'.status = 404
                   ELSE /\ fetched'.status = 200
                        /\ IF current_ccs[s] = NoCCS
                           THEN fetched'.body = EmptyObject
                           ELSE /\ DOMAIN fetched'.body = DOMAIN current_ccs[s]
                                /\ \A field \in DOMAIN current_ccs[s] :
                                     fetched'.body[field] = current_ccs[s][field]]_vars

\* C21 witness: a second request of session 'default' found the controller
\* of the first with its CCS, a fetch of 'default' returned that CCS, and no
\* controller of 's2' exists.
C21_Witness ==
    /\ Len(req) = 2
    /\ req[1].session = "default" /\ req[2].session = "default"
    /\ req[2].pc = "received"
    /\ current_ccs["default"] \in OracleCCS
    /\ fetched.op = "get_state"
    /\ fetched.session_id = "default"
    /\ fetched.status = 200
    /\ fetched.body # EmptyObject
    /\ fetched.body.semantic_gist = current_ccs["default"].semantic_gist
    /\ "s2" \notin sessions

\* C27 (Spec): a request becomes scheduled for Finalize only from a
\* completed Act without error, in a step that yields no fragment; an Act
\* that ends without raising and without the caller leaving always schedules
\* it; once scheduled the request never acts or is scheduled again and its
\* reply gets no further fragment; and finalize_turn has effects only for a
\* request that is scheduled.
C27_FinalizeAfterLastFragment ==
    /\ [][\A r \in Requests :
            (req'[r].pc = "scheduled" /\ req[r].pc # "scheduled") =>
                /\ req[r].pc = "acting"
                /\ req[r].error = "none"
                /\ req'[r].stream = req[r].stream
                /\ req'[r].full_response = req[r].full_response
                /\ Flatten(req[r].stream) = req[r].full_response]_vars
    /\ [][\A r \in Requests :
            (req[r].pc = "acting"
             /\ req'[r].pc \notin {"acting", "act_error", "cancelled"})
                => req'[r].pc = "scheduled"]_vars
    /\ [][\A r \in Requests :
            req[r].pc \in FinalizePending \cup {"done", "fin_error"} =>
                /\ req'[r].pc \notin {"received", "acting"}
                /\ req'[r].pc = "scheduled" => req[r].pc = "scheduled"
                /\ Len(req'[r].stream) <= Len(req[r].stream)]_vars
    /\ [][\A r \in Requests :
            req[r].pc \in {"received", "acting"} =>
                (req'[r].pc \in {"received", "acting"} =>
                    /\ history' = history
                    /\ journal' = journal
                    /\ store' = store
                    /\ files' = files
                    \/ \E q \in Requests \ {r} :
                         req[q].pc \in FinalizePending /\ req'[q] # req[q])]_vars

\* C27 witness: the reply was delivered and finalize_turn is scheduled.
C27_Witness ==
    \E r \in Requests :
        /\ req[r].pc = "scheduled"
        /\ Len(req[r].stream) >= 1
        /\ req[r].full_response = <<"a">>

\* C28 (Spec): the step in which a store write of finalize_turn raises takes
\* nothing back: journal, ledger and store keep what they had, the
\* configuration documents and the history windows are as they were; when
\* the insertion of a fact raises, the ledger has the bullets of all facts
\* and the store has the facts inserted before the failing one; and while a
\* request is in that failed state no later step removes anything from
\* journal, ledger or store.
C28_NoRollbackOnWriteFailure ==
    /\ [][\A r \in Requests :
            (req[r].pc \in FinalizePending /\ req'[r].pc = "fin_error") =>
                /\ FileAppendedOnly(journal, journal')
                /\ FileAppendedOnly(ledger, ledger')
                /\ IsPrefix(store, store')
                /\ files' = files
                /\ history' = history
                /\ user_context' = user_context
                /\ agents_context' = agents_context
                /\ req'[r].error = "fact_write" =>
                     /\ journal' = journal
                     /\ ledger' = ledger \o Bullets(req[r].facts)
                     /\ \E k \in 0..(Len(req[r].facts) - 1) :
                          store' = AddFacts(store, SubSeq(req[r].facts, 1, k))]_vars
    /\ [][(\E r \in Requests : req[r].pc = "fin_error") =>
                /\ FileAppendedOnly(journal, journal')
                /\ FileAppendedOnly(ledger, ledger')
                /\ IsPrefix(store, store')]_vars

\* C28 witness: the insertion of the second fact raised; the journal entry,
\* both bullets and the first fact are there.
C28_Witness ==
    \E r \in Requests :
        /\ req[r].pc = "fin_error"
        /\ req[r].error = "fact_write"
        /\ journal # Absent
        /\ InSeq("J", journal)
        /\ InSeq("f2", ledger)
        /\ store # <<>>
        /\ store[Len(store)] = [content |-> [fact |-> "f1"], type |-> "semantic_memory"]

\* C29 (Spec), as claimed: the episodic step of a request adds exactly one
\* artifact, the trace of the request's input, its reply and the
\* semantic_gist of the CCS that the request's own Prepare committed.
C29_TraceCarriesOwnGist ==
    [][\A r \in Requests :
         (req[r].pc = "episodic" /\ req'[r].pc = "history_user") =>
             store' = Append(store,
                        [content |-> EpisodicTrace(req[r].input.text,
                                                   req[r].full_response,
                                                   req[r].prep_gist),
                         type |-> "episodic_memory"])]_vars

\* C30 (SpecSessions): a session has no CCS until a Prepare of it has
\* succeeded; the CCS of a session changes only in a successful Prepare step
\* of a request of that session; after that step it is exactly the object
\* the oracle emitted, whatever the previous CCS was; no other step (Act,
\* Finalize, a state fetch, a new chat request, a failed Prepare) changes it.
C30_CcsReplacedOnlyByPrepare ==
    /\ [](\A s \in Sessions :
            (\A r \in Requests :
                req[r].session = s => req[r].pc \in {"received", "prep_error"})
                => current_ccs[s] = NoCCS)
    /\ [][\A s \in Sessions :
            current_ccs'[s] # current_ccs[s] =>
                \E r \in Requests :
                    /\ req[r].session = s
                    /\ req[r].pc = "received"
                    /\ req'[r].pc = "acting"]_vars
    /\ [][\A r \in Requests :
            (req[r].pc = "received" /\ req'[r].pc = "acting") =>
                \E new_ccs \in OracleCCS :
                    /\ Prepare(r, "ok", new_ccs)
                    /\ current_ccs'[req[r].session] = new_ccs
                    /\ req'[r].act_ccs = new_ccs]_vars
    /\ [][fetched'.op = "get_state" => current_ccs' = current_ccs]_vars

\* C30 witness: the second successful Prepare of a session replaced g1's CCS,
\* which had a constraint, by g2's, which has none, and a state fetch has
\* just returned it.
C30_Witness ==
    \E r \in Requests :
        /\ r = 2
        /\ req[1].session = req[2].session
        /\ req[1].pc \notin {"received", "prep_error"}
        /\ req[2].pc = "acting"
        /\ req[2].act_ccs = CCS("g2", "goal2", <<>>)
        /\ current_ccs[req[2].session] = CCS("g2", "goal2", <<>>)
        /\ fetched.op = "get_state"
        /\ fetched.status = 200
        /\ fetched.body # EmptyObject
        /\ fetched.body.semantic_gist = "g2"

\* the smallest day of a non-empty set of days
OldestOf(S) == CHOOSE d \in S : \A e \in S : d <= e

\* the text the claim describes for the set S of days that have a file: the
\* files by ascending date, each under its date header, two newlines between
RECURSIVE OldestToNewest(_, _)
OldestToNewest(logs, S) ==
    IF S = {} THEN <<>>
    ELSE LET d == OldestOf(S)
         IN  <<"# ", DateStr(d), "\n\n">> \o logs[d]
             \o (IF S = {d} THEN <<>> ELSE <<"\n\n">> \o OldestToNewest(logs, S \ {d}))

\* C22 (SpecJournal): read_recent_daily_logs(days) returns the files that
\* exist among the last `days` days, today included, oldest first, each
\* preceded by its date header; days without a file contribute nothing, and
\* the result is the empty string when no day of the range has a file.
C22_RecentLogsOldestFirst ==
    [][(jr'.last.op = "read" /\ jr'.last # jr.last) =>
         LET days == jr'.last.days
             have == {d \in Dates : /\ jr.today - days < d
                                    /\ d <= jr.today
                                    /\ jr.logs[d] # Absent}
         IN  /\ jr'.logs = jr.logs
             /\ jr'.last.result = OldestToNewest(jr.logs, have)
             /\ have = {} => jr'.last.result = <<>>]_vars

\* C22 witness: a read of three days on a day with a file, after a day
\* without one and a day with one.
C22_Witness ==
    /\ jr.today = 3
    /\ jr.logs[1] # Absent
    /\ jr.logs[2] = Absent
    /\ jr.logs[3] # Absent
    /\ jr.last.op = "read"
    /\ jr.last.days = 3
    /\ Len(jr.last.result) = 15
    /\ jr.last.result[2] = "2025-12-30"
    /\ jr.last.result[10] = "2026-01-01"

\* the spellings of 'gemini' that differ in case only
GeminiSpellings ==
    {p \in EnvProviders \ {None} :
        /\ Len(p) = 6
        /\ \A i \in 1..6 :
             p[i] \in {<<"g", "e", "m", "i", "n", "i">>[i],
                       <<"G", "E", "M", "I", "N", "I">>[i]}}

\* the classes and the model name the claim describes, where `arg_given`
\* and `env_set` say when the argument and ACC_LLM_MODEL count
FactoryAsClaimed(arg_given, env_set) ==
    LET gemini == llm.env.ACC_LLM_PROVIDER \in GeminiSpellings
    IN  /\ llm.last.op = "get_llm_model" =>
             /\ llm.last.result.class =
                  IF gemini THEN "ChatGoogleGenerativeAI" ELSE "ChatOpenAI"
             /\ llm.last.result.model =
                  IF arg_given THEN llm.last.model_name
                  ELSE IF env_set THEN llm.env.ACC_LLM_MODEL
                  ELSE IF gemini THEN <<"gemini-2.5-flash">> ELSE <<"gpt-5-mini">>
        /\ llm.last.op = "get_embedding_function" =>
             llm.last.result.class =
                  IF gemini THEN "LangChainEmbeddingAdapter" ELSE "OpenAIEmbeddingFunction"

\* C23 (SpecFactory), as claimed: the provider is Gemini exactly for the
\* spellings of 'gemini', OpenAI otherwise; the model name is the argument if
\* one was given (anything but None), else ACC_LLM_MODEL if it is set, else
\* the provider's default.
C23_AsClaimed ==
    FactoryAsClaimed(llm.last.op = "get_llm_model" /\ llm.last.model_name # None,
                     llm.env.ACC_LLM_MODEL # None)

\* C23 (SpecFactory), amended: the same, with the argument counting only if
\* it is a non-empty string and ACC_LLM_MODEL only if it is set to a
\* non-empty string.
C23_ProviderAndModelName ==
    FactoryAsClaimed(llm.last.op = "get_llm_model"
                       /\ llm.last.model_name \notin {None, <<>>},
                     llm.env.ACC_LLM_MODEL \notin {None, <<>>})

\* C23 witness: ACC_LLM_PROVIDER=GEMINI, no model configured, no argument.
C23_Witness ==
    /\ llm.env.ACC_LLM_PROVIDER = <<"G", "E", "M", "I", "N", "I">>
    /\ llm.env.ACC_LLM_MODEL = None
    /\ llm.last.op = "get_llm_model"
    /\ llm.last.model_name = None
    /\ llm.last.result = [class |-> "ChatGoogleGenerativeAI",
                          model |-> <<"gemini-2.5-flash">>]

\* C31 (Spec), as claimed: a journal step whose oracle gave a text leaves the
\* day's journal holding that text and nothing else: the text replaces what
\* the file held, it is not added behind it.
C31_JournalRewrittenWhole ==
    [][\A r \in Requests :
         (JournalStep(r) /\ req[r].journal_entry # <<>>)
             => journal' = req[r].journal_entry]_vars

\* C34 (Spec), as claimed: in every history window each agent message that
\* is not the oldest entry stands immediately behind a user message.
C34_PairsNeverSeparated ==
    \A s \in Sessions :
        \A i \in 2..Len(history[s]) :
            history[s][i].role = "agent" => history[s][i - 1].role = "user"

\* C36 (SpecEngine), as claimed: when generate_response_stream has ended
\* normally, every round of capability calls was followed by a further
\* oracle invocation, and the last fragment yielded is not the progress
\* marker.
C36_ToolResultsConsumed ==
    gs.pc = "done" =>
        /\ gs.calls = gs.rounds + 1
        /\ gs.out # <<>> => gs.out[Len(gs.out)] # SearchingMarker

\* C32 (SpecPrepare), as claimed: whatever the Qualify oracle answers, each
\* string qualify_artifacts returns is one of the recalled strings it was
\* given; with nothing recalled the oracle is not consulted and the result
\* is empty.
C32_QualifiedIsSubsetOfRecalled ==
    pt.pc \in {"compress", "returned"} =>
        /\ \A i \in 1..Len(pt.qualified_artifacts) :
               \E j \in 1..Len(pt.raw_artifacts) :
                   pt.qualified_artifacts[i] = pt.raw_artifacts[j]
        /\ pt.raw_artifacts = <<>> =>
               pt.qualify = "skipped" /\ pt.qualified_artifacts = <<>>

\* a step in which the Act of request r fails
ActRaiseStep(r) == req[r].pc = "acting" /\ req'[r].pc = "act_error"

\* C37 (Spec): when Act fails after a successful Prepare, the failing step
\* leaves the session's CCS as it was, together with the history windows,
\* the journal, the ledger and the artifact store; the failed turn takes no
\* further step, so it never changes them later; the session of a turn whose
\* Act failed always has a committed CCS, and a later Prepare of the session
\* that fails leaves exactly that CCS in place.
C37_ActFailureKeepsCommit ==
    /\ [][\A r \in Requests :
            ActRaiseStep(r) =>
                /\ current_ccs' = current_ccs
                /\ current_ccs[req[r].session] \in OracleCCS
                /\ history' = history /\ journal' = journal
                /\ ledger' = ledger /\ store' = store /\ files' = files]_vars
    /\ [][\A r \in Requests :
            req[r].pc = "act_error" => req'[r] = req[r]]_vars
    /\ \A r \in Requests :
           req[r].pc = "act_error" => current_ccs[req[r].session] \in OracleCCS
    /\ [][\A r, n \in Requests :
            (/\ req[r].pc = "act_error"
             /\ req[n].session = req[r].session
             /\ req[n].pc = "received" /\ req'[n].pc = "prep_error")
                => current_ccs'[req[n].session] = current_ccs[req[n].session]]_vars

C37_Witness ==
    \E r, n \in Requests :
        /\ r < n
        /\ req[r].pc = "act_error" /\ req[r].error = "act_raise"
        /\ req[n].session = req[r].session
        /\ req[n].pc = "prep_error"
        /\ current_ccs[req[r].session] \in OracleCCS
        /\ history[req[r].session] = <<>>
        /\ journal = Absent /\ store = <<>>

\* the requests of session s whose finalize_turn is at the given position
TurnsAt(s, pcs) == {r \in Requests : req[r].session = s /\ req[r].pc \in pcs}

\* C38 (Spec): the history appends are the last steps of finalize_turn.  A
\* window changes only in the two append steps of a request none of whose
\* Finalize writes raised; a request that reaches the appends has its
\* episodic trace in the artifact store; each window holds two messages for
\* every finished turn of its session, one for a turn between the two
\* appends, and none for any other turn; a step in which a Finalize write
\* raises leaves the windows alone and is the turn's last step.
C38_HistoryAppendIsLast ==
    /\ [][history' # history =>
            \E r \in Requests :
                /\ \/ req[r].pc = "history_user" /\ req'[r].pc = "history_agent"
                   \/ req[r].pc = "history_agent" /\ req'[r].pc = "done"
                /\ req[r].error = "none"
                /\ \A s \in Sessions :
                       s # req[r].session => history'[s] = history[s]]_vars
    /\ \A r \in Requests :
           req[r].pc \in {"history_user", "history_agent"} =>
               /\ req[r].error = "none"
               /\ \E i \in 1..Len(store), ccs \in OracleCCS :
                      store[i] = [content |-> EpisodicTrace(req[r].input.text,
                                                   req[r].full_response,
                                                   ccs.semantic_gist),
                                  type |-> "episodic_memory"]
    /\ \A s \in Sessions :
           Len(history[s]) = 2 * Cardinality(TurnsAt(s, {"done"}))
                               + Cardinality(TurnsAt(s, {"history_agent"}))
    /\ [][\A r \in Requests :
            (req[r].pc # "fin_error" /\ req'[r].pc = "fin_error")
                => history' = history]_vars
    /\ [][\A r \in Requests :
            req[r].pc = "fin_error" => req'[r] = req[r]]_vars

\* C38 witness: the episodic insertion of a turn raised after its journal
\* entry and facts were written; the session's window is empty.
C38_Witness ==
    \E r \in Requests :
        /\ req[r].pc = "fin_error"
        /\ req[r].error = "episodic_write"
        /\ journal # Absent
        /\ ledger # EnsureLedger(Absent)
        /\ history[req[r].session] = <<>>

\* C33 (Spec): a Prepare step, successful or not, changes of the stored
\* state at most the current CCS and the cached recent-memory text of the
\* request's own session: the history windows, the in-memory documents, the
\* document files, the journal, the ledger, the artifact store and the set
\* of sessions stay as they are; the history handed to Act is the window as
\* it was before the step, which holds no message of this turn: it is empty
\* whenever no turn of the session has reached its history appends.
C33_PrepareFrame ==
    /\ [][\A r \in Requests :
            PrepareStep(r) =>
                /\ history' = history
                /\ user_context' = user_context
                /\ agents_context' = agents_context
                /\ files' = files /\ journal' = journal
                /\ ledger' = ledger /\ store' = store
                /\ sessions' = sessions
                /\ \A s \in Sessions :
                       s # req[r].session =>
                           /\ current_ccs'[s] = current_ccs[s]
                           /\ recent_memory'[s] = recent_memory[s]
                /\ req'[r].pc = "acting" =>
                       req'[r].act_history = history[req[r].session]]_vars
    /\ \A r \in Requests :
           (/\ req[r].pc = "acting"
            /\ TurnsAt(req[r].session, {"history_agent", "done"}) = {})
               => req[r].act_history = <<>>

\* C33 witness: a second turn of a session is in Act with the window of the
\* finished first turn, after its Prepare replaced the CCS.
C33_Witness ==
    \E r \in Requests :
        /\ req[r].pc = "acting"
        /\ Len(req[r].act_history) = 2
        /\ req[r].act_history = history[req[r].session]
        /\ req[r].act_ccs = current_ccs[req[r].session]
        /\ recent_memory[req[r].session] # <<>>
        /\ store # <<>>

\* C35 (SpecAct): the fragments passed to the caller are the fragments that
\* generate_response_stream yielded, in order, progress markers and the
\* content of intermediate iterations included; full_response is their
\* concatenation at every moment of Act; the text handed to Finalize, the
\* content of the agent message in the window and the reply of the episodic
\* trace are the concatenation of all fragments the caller received.
C35_ReplyIsAllFragments ==
    /\ sg.pc \in {"acting", "scheduled", "done"} =>
           /\ sg.stream = SubSeq(gs.out, 1, sg.taken)
           /\ sg.full_response = Flatten(sg.stream)
    /\ sg.pc \in {"scheduled", "done"} =>
           /\ sg.stream = StreamedThrough(gs.calls)
           /\ sg.full_response = Flatten(StreamedThrough(gs.calls))
    /\ sg.pc = "done" =>
           /\ sg.history = <<HumanMessage(sg.user_input),
                             AIMessage(Flatten(sg.stream))>>
           /\ Len(sg.store) = 1
           /\ sg.store[1].content.assistant = Flatten(sg.stream)
    /\ sg.pc # "done" => sg.history = <<>> /\ sg.store = <<>>

\* C35 witness: a finished turn whose reply has the content of an
\* intermediate iteration, a progress marker behind it and more content.
C35_Witness ==
    /\ sg.pc = "done"
    /\ Len(sg.stream) >= 3
    /\ sg.stream[1] # SearchingMarker
    /\ sg.stream[2] = SearchingMarker
    /\ sg.stream[Len(sg.stream)] # SearchingMarker
    /\ sg.history[2].content = Flatten(sg.stream)
    /\ InSeq(SearchingMarker[1], sg.history[2].content)

====
